---------------------------- MODULE Spec2Model ----------------------------
(***************************************************************************)
(* A model of the two-pass OMF linker: the symbol table, the segment       *)
(* combine algebra, Pass 1 (record handlers, library resolution, memory    *)
(* map).  Every operator is translated from the Rust source it names.      *)
(***************************************************************************)
EXTENDS Integers, Sequences, FiniteSets, TLC

VARIABLES
    symbols,        \* SymbolTable.symbols : HashMap<String, Symbol>
    updates,        \* the update calls made so far: <<[name, symbol, ok]>>
    symbolsBefore,  \* the symbol table as it was before the last update call
    seg,            \* segment.rs: the Segment that add_segdef is called on
    segBefore,      \* that Segment as it was before the last add_segdef call
    segCall,        \* the last add_segdef call: [segdef, ok, offset]
    segCount,       \* the number of add_segdef calls made so far
    lnames,         \* LinkState.lnames : the global name table (1-based)
    segments,       \* LinkState.segments : OmfVec<Segment>
    groups,         \* LinkState.groups : OmfVec<Group>
    segment_order,  \* LinkState.segment_order
    objects,        \* the Objects of pass1, the last one being read
    phase,          \* "pass1" while records are read, "search" and
                    \* "ingest" in pass1_add_library_modules, "mapped"
                    \* after pass1_build_memory_map, "failed" once pass 1
                    \* has returned Err
    recordsRead,    \* the number of EXTDEF and PUBDEF records read from
                    \* the command-line objects
    libs,           \* the libraries given to pass1 (positions from 1)
    mods,           \* pass1_add_library_modules: LibraryModules.mods
    undstart,       \* pass1_add_library_modules: undstart
    undefined,      \* pass1_add_library_modules: undefined
    und,            \* pass1_add_library_modules: the names of `und` that
                    \* the for loop has not visited yet
    ingested,       \* the number of library modules passed to pass1_object
    dictionary,     \* library.rs: the dictionary of a Library
    walk,           \* find_symbol_in_dictionary: the symbol looked up, its
                    \* hash and the position of the probe; "idle" between
                    \* lookups
    exe,            \* dosexe.rs: the DosExe, [len, entry_point]
    entryCall,      \* the last set_entry_point call: [seg, offset, linear,
                    \* result]
    file,           \* what DosExe::write has written: [result, header,
                    \* data_len], <<>> before it is called
    entry,          \* LinkState.entry : Option<FarPtr>, <<>> for None
    image,          \* pass2: the memory image, [len, bytes]; bytes holds
                    \* the bytes that are not zero, by address
    highwater,      \* pass2: highwater
    relocs,         \* pass2: relocs, the MZ relocations pushed so far
    threads,        \* Object.fixup_threads of every object
    cur,            \* pass2: the position in objects of the object read
    lastdata,       \* pass2_object: lastdata
    modend,         \* pass2_object: modend
    p2count,        \* the number of pass 2 records read so far
    p2log,          \* what the last pass 2 record did: the record, the
                    \* tables and the image before it, one entry per
                    \* fixup subrecord
    regions,        \* the data regions LEDATA and LIDATA have placed
    raw,            \* record.rs: the slice given to Record::new
    record,         \* record.rs: the Record, [data, rectype, next]
    recCall         \* the last accessor call: [op, ok, value, before]

symVars == <<symbols, updates, symbolsBefore>>
segVars == <<seg, segBefore, segCall, segCount>>
linkVars == <<lnames, segments, groups, segment_order, objects, phase>>
libVars == <<recordsRead, libs, mods, undstart, undefined, und, ingested>>
dictVars == <<dictionary, walk>>
exeVars == <<exe, entryCall, file>>
p2Vars == <<entry, image, highwater, relocs, threads, cur, lastdata, modend,
            p2count, p2log, regions>>
recVars == <<raw, record, recCall>>

vars == <<symbols, updates, symbolsBefore, seg, segBefore, segCall, segCount,
          lnames, segments, groups, segment_order, objects, phase,
          recordsRead, libs, mods, undstart, undefined, und, ingested,
          dictionary, walk, exe, entryCall, file,
          entry, image, highwater, relocs, threads, cur, lastdata, modend,
          p2count, p2log, regions, raw, record, recCall>>

(***************************************************************************)
(* Bounds of the model.                                                    *)
(***************************************************************************)
MaxUpdates == 3
MaxSegCalls == 3
MaxObjects == 2
MaxSegdefs == 3
MaxRecords == 2
MaxGrpdefs == 2
MaxKeys == 3
MaxP2Records == 2

(***************************************************************************)
(* Helpers.                                                                *)
(***************************************************************************)
Max(a, b) == IF a >= b THEN a ELSE b

Last(s) == s[Len(s)]

\* A HashMap is a function whose DOMAIN is the set of its keys.
EmptyMap == [k \in {} |-> 0]

MapInsert(m, k, v) == [x \in (DOMAIN m) \cup {k} |-> IF x = k THEN v ELSE m[x]]

(***************************************************************************)
(* Names are ASCII strings, modelled as sequences of character codes, so   *)
(* that letter case is something the model computes with.                  *)
(***************************************************************************)
NameLowerF == <<102>>    \* "f"
NameUpperF == <<70>>     \* "F"
NameLowerB == <<98>>     \* "b"

Names == {NameLowerF, NameUpperF, NameLowerB}

(***************************************************************************)
(* symbols.rs : the Symbol variants and their constructors.                *)
(***************************************************************************)
Undefined == [kind |-> "Undefined"]

Symbol_public(group, segment, frame, offset) ==
    [kind |-> "Public", group |-> group, segment |-> segment,
     frame |-> frame, offset |-> offset, used |-> FALSE]

Symbol_common(size, isfar) ==
    [kind |-> "Common", size |-> size, isfar |-> isfar,
     group |-> 0, segment |-> 0, offset |-> 0]

IsPublic(sym) == sym.kind = "Public"
IsCommon(sym) == sym.kind = "Common"
IsUndefined(sym) == sym.kind = "Undefined"

\* The symbols the update calls of the model are drawn from.
PublicInputs == {Symbol_public(1, 1, 0, 0), Symbol_public(0, 0, 64, 8)}
CommonInputs == {Symbol_common(s, f) : s \in {100, 200}, f \in BOOLEAN}
SymbolInputs == {Undefined} \cup PublicInputs \cup CommonInputs

(***************************************************************************)
(* SymbolTable::update, block by block.                                    *)
(***************************************************************************)

\* symbols.rs 59-77: the redefinition rules for a defining (non-Undefined)
\* symbol; TRUE when update returns Err before touching the table.
RedefinitionErrorAllowsCommon(tab, name, symbol) ==
    /\ name \in DOMAIN tab
    /\ IsPublic(symbol)
    /\ \/ IsPublic(tab[name])
       \/ IsCommon(tab[name])

RedefinitionError(tab, name, symbol) ==
    /\ name \in DOMAIN tab
    /\ \/ IsPublic(tab[name])
       \/ IsCommon(tab[name]) /\ IsPublic(symbol)

\* symbols.rs 63: `exists` is set when the entry being defined is Undefined.
ExistsUndefined(tab, name) ==
    name \in DOMAIN tab /\ IsUndefined(tab[name])

\* symbols.rs 78-87: an Undefined update of an existing entry only marks a
\* Public as used; it never replaces the entry.
ExtdefExistingUndefines(sym) == Undefined

ExtdefExisting(sym) ==
    IF IsPublic(sym) THEN [sym EXCEPT !.used = TRUE] ELSE sym

\* symbols.rs 96: a Common merged into a Common keeps the larger size.
CommonMergeTakesNew(oldsym, newsym) == [oldsym EXCEPT !.size = newsym.size]

CommonMerge(oldsym, newsym) ==
    [oldsym EXCEPT !.size = Max(oldsym.size, newsym.size)]

\* symbols.rs 103-109: the inserted symbol; a Public that resolves an
\* existing Undefined is marked used.
InsertedSymbolNeverUsed(exists, symbol) == symbol

InsertedSymbol(exists, symbol) ==
    IF exists /\ IsPublic(symbol) THEN [symbol EXCEPT !.used = TRUE] ELSE symbol

UpdateOk(tab) == [ok |-> TRUE, symbols |-> tab]
UpdateErr(tab) == [ok |-> FALSE, symbols |-> tab]

\* symbols.rs 55-112.
SymbolTable_update(tab, name, symbol) ==
    IF ~IsUndefined(symbol)
    THEN IF RedefinitionError(tab, name, symbol)
         THEN UpdateErr(tab)
         ELSE IF IsCommon(symbol) /\ name \in DOMAIN tab /\ IsCommon(tab[name])
              THEN IF symbol.isfar # tab[name].isfar
                   THEN UpdateErr(tab)
                   ELSE UpdateOk([tab EXCEPT ![name] = CommonMerge(@, symbol)])
              ELSE UpdateOk(MapInsert(tab, name,
                        InsertedSymbol(ExistsUndefined(tab, name), symbol)))
    ELSE IF name \in DOMAIN tab
         THEN UpdateOk([tab EXCEPT ![name] = ExtdefExisting(@)])
         ELSE UpdateOk(MapInsert(tab, name, symbol))

\* symbols.rs 51-53.
undefined_symbols(tab) == {n \in DOMAIN tab : IsUndefined(tab[n])}


(***************************************************************************)
(* segment.rs : alignment, combine types, SegDef, Segment.                 *)
(***************************************************************************)
MAX_SEGMENT_SIZE == 65536

RECURSIVE BitAnd(_, _)
\* The bitwise AND of two naturals.
BitAnd(x, y) ==
    IF x = 0 \/ y = 0 THEN 0
    ELSE (x % 2) * (y % 2) + 2 * BitAnd(x \div 2, y \div 2)

RECURSIVE ShiftRight(_, _)
ShiftRight(x, n) == IF n = 0 THEN x ELSE ShiftRight(x \div 2, n - 1)

\* segment.rs 12-22: the derived Ord of Align follows declaration order.
AlignRank(a) ==
    CASE a = "Absolute" -> 0
      [] a = "Byte"     -> 1
      [] a = "Word"     -> 2
      [] a = "Dword"    -> 3
      [] a = "Para"     -> 4
      [] a = "Page"     -> 5

Aligns == {"Absolute", "Byte", "Word", "Dword", "Para", "Page"}

\* segment.rs 203: max(self.align, segdef.align); std max returns the
\* second argument when the two compare equal.
AlignMax(a, b) == IF AlignRank(a) > AlignRank(b) THEN a ELSE b

\* segment.rs 27-38: [ok, align].
Align_from_acbp(acbp) ==
    LET align == BitAnd(ShiftRight(acbp, 5), 7) IN
    CASE align = 0 -> [ok |-> TRUE, align |-> "Absolute"]
      [] align = 1 -> [ok |-> TRUE, align |-> "Byte"]
      [] align = 2 -> [ok |-> TRUE, align |-> "Word"]
      [] align = 3 -> [ok |-> TRUE, align |-> "Para"]
      [] align = 4 -> [ok |-> TRUE, align |-> "Page"]
      [] align = 5 -> [ok |-> TRUE, align |-> "Dword"]
      [] OTHER     -> [ok |-> FALSE, align |-> "Absolute"]

\* segment.rs 44-51.
AlignBytes(a) ==
    CASE a = "Absolute" -> 1
      [] a = "Byte"     -> 1
      [] a = "Word"     -> 2
      [] a = "Para"     -> 16
      [] a = "Page"     -> 256
      [] a = "Dword"    -> 4

\* segment.rs 43-54: (offset + align - 1) & !(align - 1).
align_by(a, offset) ==
    LET x == offset + AlignBytes(a) - 1 IN
    x - BitAnd(x, AlignBytes(a) - 1)

Combines == {"Private", "Public", "Stack", "Common"}

\* segment.rs 68-77: [ok, combine].
Combine_from_acbp(acbp) ==
    LET combine == BitAnd(ShiftRight(acbp, 2), 7) IN
    CASE combine = 0 -> [ok |-> TRUE, combine |-> "Private"]
      [] combine \in {2, 4, 7} -> [ok |-> TRUE, combine |-> "Public"]
      [] combine = 5 -> [ok |-> TRUE, combine |-> "Stack"]
      [] combine = 6 -> [ok |-> TRUE, combine |-> "Common"]
      [] OTHER       -> [ok |-> FALSE, combine |-> "Private"]

\* segment.rs 95-104.
SegDef_new(segidx, length, acbp, align, combine) ==
    [segidx |-> segidx, base |-> 0, length |-> length, acbp |-> acbp,
     align |-> align, combine |-> combine]

\* segment.rs 118-120.
SegName_new(nameidx, classidx, ovlyidx) ==
    [nameidx |-> nameidx, classidx |-> classidx, ovlyidx |-> ovlyidx]

\* segment.rs 141-143.
Segment_new(name, length, align, combine) ==
    [name |-> name, length |-> length, align |-> align, combine |-> combine,
     base |-> 0, group |-> 0]

\* segment.rs 149-156: the four checks that reject a segdef outright.
CombineRejectedNoSizeCheck(segment, segdef) ==
    \/ segdef.combine = "Private"
    \/ segment.combine = "Private"
    \/ segdef.combine # segment.combine

CombineRejected(segment, segdef) ==
    \/ segdef.combine = "Private"
    \/ segment.combine = "Private"
    \/ segdef.combine # segment.combine
    \/ segdef.length > MAX_SEGMENT_SIZE

\* segment.rs 162-176: a Public segdef starts at the aligned end.
PublicOffsetUnaligned(segment, segdef) == segment.length

PublicOffset(segment, segdef) == align_by(segdef.align, segment.length)

\* segment.rs 170, 184: the concatenation overflows the 64k segment.
SegmentOverflowOffByOne(new_length) == new_length > MAX_SEGMENT_SIZE + 1

SegmentOverflow(new_length) == new_length > MAX_SEGMENT_SIZE

AddSegdefErr(segment) == [ok |-> FALSE, offset |-> 0, segment |-> segment]

\* segment.rs 174, 188, 197 left out: the new length is never stored.
AddSegdefOkKeepsLength(segment, offset, new_length, segdef) ==
    [ok |-> TRUE, offset |-> offset,
     segment |-> [segment EXCEPT !.align = AlignMax(@, segdef.align)]]

AddSegdefOk(segment, offset, new_length, segdef) ==
    [ok |-> TRUE, offset |-> offset,
     segment |-> [segment EXCEPT !.length = new_length,
                                 !.align = AlignMax(@, segdef.align)]]

\* As Segment_add_segdef, but the new length of a Public or Stack segment
\* is stored before it is tested against the 64k limit.
Segment_add_segdef_stores_first(segment, segdef) ==
    IF CombineRejected(segment, segdef) THEN AddSegdefErr(segment)
    ELSE IF segment.combine = "Common"
    THEN AddSegdefOk(segment, 0, Max(segment.length, segdef.length), segdef)
    ELSE IF segment.combine = "Public"
    THEN IF SegmentOverflow(PublicOffset(segment, segdef) + segdef.length)
         THEN AddSegdefErr([segment EXCEPT
                  !.length = PublicOffset(segment, segdef) + segdef.length])
         ELSE AddSegdefOk(segment, PublicOffset(segment, segdef),
                          PublicOffset(segment, segdef) + segdef.length, segdef)
    ELSE IF SegmentOverflow(segment.length + segdef.length)
         THEN AddSegdefErr([segment EXCEPT !.length = @ + segdef.length])
         ELSE AddSegdefOk(segment, segment.length,
                          segment.length + segdef.length, segdef)

\* segment.rs 148-207: [ok, offset, segment].
Segment_add_segdef(segment, segdef) ==
    IF CombineRejected(segment, segdef)
    THEN AddSegdefErr(segment)
    ELSE CASE segment.combine = "Public" ->
                LET offset == PublicOffset(segment, segdef)
                    new_length == offset + segdef.length IN
                IF SegmentOverflow(new_length)
                THEN AddSegdefErr(segment)
                ELSE AddSegdefOk(segment, offset, new_length, segdef)
           [] segment.combine = "Stack" ->
                LET offset == segment.length
                    new_length == offset + segdef.length IN
                IF SegmentOverflow(new_length)
                THEN AddSegdefErr(segment)
                ELSE AddSegdefOk(segment, offset, new_length, segdef)
           [] segment.combine = "Common" ->
                AddSegdefOk(segment, 0, Max(segment.length, segdef.length), segdef)

\* The value of the segment variables outside the add_segdef specification,
\* and of the last call before any call is made.
NoSegment == Segment_new(SegName_new(0, 0, 0), 0, "Byte", "Private")
NoSegCall == [segdef |-> SegDef_new(0, 0, 0, "Byte", "Private"),
              ok |-> FALSE, offset |-> 0]


(***************************************************************************)
(* lnames.rs, index_map.rs, omf_vec.rs, group.rs, object.rs, linkstate.rs. *)
(***************************************************************************)

\* omf_vec.rs 60-62: index > 0 && index <= len.
OmfVec_is_valid_index(v, index) == index > 0 /\ index <= Len(v)

\* index_map.rs 34-36: 0 is valid as well.
IndexMap_is_valid_index(m, index) == index = 0 \/ OmfVec_is_valid_index(m, index)

\* index_map.rs 30-32: local index 0 maps to global 0.
IndexMap_get(m, index) == IF index = 0 THEN 0 ELSE m[index]

\* lnames.rs 20-25: [index, names]; names are compared case-sensitively.
LNames_find_or_add(names, name) ==
    IF \E i \in 1..Len(names) : names[i] = name
    THEN [index |-> CHOOSE i \in 1..Len(names) :
                       names[i] = name /\ \A j \in 1..(i - 1) : names[j] # name,
          names |-> names]
    ELSE [index |-> Len(names) + 1, names |-> Append(names, name)]

\* group.rs 30-36.
Group_new(name) == [name |-> name, members |-> <<>>, base |-> 0]

\* group.rs 39-47: a member is pushed unless it is there already.
Group_add(group, index) ==
    IF \E i \in 1..Len(group.members) : group.members[i] = index THEN group
    ELSE [group EXCEPT !.members = Append(@, index)]

\* object.rs 26-36.
Object_new ==
    [lnames |-> <<>>, segdefs |-> <<>>, grpdefs |-> <<>>, extdefs |-> <<>>]

\* linkstate.rs 73-79: the first segment with that name triple, or 0 for None.
get_segment_named(segs, segname) ==
    IF \E i \in 1..Len(segs) : segs[i].name = segname
    THEN CHOOSE i \in 1..Len(segs) :
            segs[i].name = segname /\ \A j \in 1..(i - 1) : segs[j].name # segname
    ELSE 0

\* No dictionary is being searched.
NoWalk == [status |-> "idle"]

NoLookup ==
    /\ dictionary = <<>>
    /\ walk = NoWalk

\* No executable is being written.
NoExe ==
    /\ exe = <<>>
    /\ entryCall = <<>>
    /\ file = <<>>

\* No record is being read.
NoRecord ==
    /\ raw = <<>>
    /\ record = <<>>
    /\ recCall = <<>>

\* Pass 2 has not started.
NoPass2 ==
    /\ entry = <<>>
    /\ image = <<>>
    /\ highwater = 0
    /\ relocs = <<>>
    /\ threads = <<>>
    /\ cur = 0
    /\ lastdata = <<>>
    /\ modend = FALSE
    /\ p2count = 0
    /\ p2log = <<>>
    /\ regions = {}

\* Before pass1_add_library_modules runs, and when no library is given.
NoLibraries ==
    /\ recordsRead = 0
    /\ libs = <<>>
    /\ mods = <<>>
    /\ undstart = 0
    /\ undefined = 0
    /\ und = {}
    /\ ingested = 0

\* linkstate.rs 81-87: the first group with that name, or 0 for None.
get_group_named(grps, grpname) ==
    IF \E i \in 1..Len(grps) : grps[i].name = grpname
    THEN CHOOSE i \in 1..Len(grps) :
            grps[i].name = grpname /\ \A j \in 1..(i - 1) : grps[j].name # grpname
    ELSE 0

\* linkstate.rs 52-61: the link state after construction.
LinkState_new ==
    /\ lnames = <<>>
    /\ segments = <<>>
    /\ groups = <<>>
    /\ segment_order = <<>>
    /\ objects = <<>>
    /\ phase = "pass1"

(***************************************************************************)
(* pass1.rs : the record handlers.  A handler is an operator from the      *)
(* state it reads to [ok, ...the state it writes].                         *)
(***************************************************************************)

RECURSIVE pass1_lnames(_, _, _)
\* pass1.rs 437-445: [names, objlnames] after interning every name of the
\* record and appending its global index to the object's map.
pass1_lnames(names, objlnames, rec) ==
    IF rec = <<>> THEN [names |-> names, objlnames |-> objlnames]
    ELSE LET r == LNames_find_or_add(names, Head(rec)) IN
         pass1_lnames(r.names, Append(objlnames, r.index), Tail(rec))

\* pass1.rs 487-498: the B bit means a length of exactly 64k, and then the
\* length field must be 0.  [ok, length].
SegdefLengthIgnoresBBit(acbp, length) == [ok |-> TRUE, length |-> length]

SegdefLength(acbp, length) ==
    IF BitAnd(acbp, 1) # 0
    THEN IF length # 0 THEN [ok |-> FALSE, length |-> 0]
         ELSE [ok |-> TRUE, length |-> 65536]
    ELSE [ok |-> TRUE, length |-> length]

\* pass1.rs 475-485: the name triple mapped through the object's LNAMES
\* map.  [ok, segname].
SegdefName(objlnames, rec) ==
    IF ~(/\ IndexMap_is_valid_index(objlnames, rec.nameidx)
         /\ IndexMap_is_valid_index(objlnames, rec.classidx)
         /\ IndexMap_is_valid_index(objlnames, rec.ovlyidx))
    THEN [ok |-> FALSE, segname |-> SegName_new(0, 0, 0)]
    ELSE [ok |-> TRUE,
          segname |-> SegName_new(IndexMap_get(objlnames, rec.nameidx),
                                  IndexMap_get(objlnames, rec.classidx),
                                  IndexMap_get(objlnames, rec.ovlyidx))]

\* pass1.rs 512: the base stored in the per-object SegDef is the offset
\* add_segdef returned.
SegdefBaseZero(offset) == 0

SegdefBase(offset) == offset

\* pass1.rs 450-518: [ok, segments, segdefs].
pass1_segdef(segs, obj, rec) ==
    LET align == Align_from_acbp(rec.acbp)
        combine == Combine_from_acbp(rec.acbp)
        name == SegdefName(obj.lnames, rec)
        length == SegdefLength(rec.acbp, rec.length)
        fail == [ok |-> FALSE, segments |-> segs, segdefs |-> obj.segdefs]
    IN
    IF ~align.ok \/ ~combine.ok \/ ~name.ok \/ ~length.ok THEN fail
    ELSE LET found == get_segment_named(segs, name.segname)
             segs1 == IF found # 0 THEN segs
                      ELSE Append(segs, Segment_new(name.segname, 0,
                                                    align.align, combine.combine))
             index == IF found # 0 THEN found ELSE Len(segs1)
             segdef == SegDef_new(index, length.length, rec.acbp,
                                  align.align, combine.combine)
             r == Segment_add_segdef(segs1[index], segdef)
         IN
         IF ~r.ok
         THEN [ok |-> FALSE, segments |-> segs1, segdefs |-> obj.segdefs]
         ELSE [ok |-> TRUE,
               segments |-> [segs1 EXCEPT ![index] = r.segment],
               segdefs |-> Append(obj.segdefs,
                                  [segdef EXCEPT !.base = SegdefBase(r.offset)])]

\* pass1.rs 571-575: a segment keeps the first group it was put in.
GroupTag(segment, index) ==
    IF segment.group # 0 /\ segment.group # index THEN segment
    ELSE [segment EXCEPT !.group = index]

RECURSIVE GrpdefMembers(_, _, _, _, _)
\* pass1.rs 553-578: the loop over the segment indices of the record.
\* [ok, groups, segments].
GrpdefMembers(grps, segs, segdefs, index, members) ==
    IF members = <<>> THEN [ok |-> TRUE, groups |-> grps, segments |-> segs]
    ELSE IF ~OmfVec_is_valid_index(segdefs, Head(members))
         THEN [ok |-> FALSE, groups |-> grps, segments |-> segs]
         ELSE LET segidx == segdefs[Head(members)].segidx IN
              GrpdefMembers([grps EXCEPT ![index] = Group_add(@, segidx)],
                            [segs EXCEPT ![segidx] = GroupTag(@, index)],
                            segdefs, index, Tail(members))

\* pass1.rs 523-581: [ok, groups, segments, grpdefs].
pass1_grpdef(grps, segs, obj, rec) ==
    IF ~IndexMap_is_valid_index(obj.lnames, rec.nameidx)
    THEN [ok |-> FALSE, groups |-> grps, segments |-> segs,
          grpdefs |-> obj.grpdefs]
    ELSE LET nameidx == IndexMap_get(obj.lnames, rec.nameidx)
             found == get_group_named(grps, nameidx)
             grps1 == IF found # 0 THEN grps ELSE Append(grps, Group_new(nameidx))
             index == IF found # 0 THEN found ELSE Len(grps1)
             r == GrpdefMembers(grps1, segs, obj.segdefs, index, rec.members)
         IN [ok |-> r.ok, groups |-> r.groups, segments |-> r.segments,
             grpdefs |-> Append(obj.grpdefs, index)]

(***************************************************************************)
(* pass1.rs : pass1_build_memory_map.                                      *)
(***************************************************************************)

\* pass1.rs 207: the indices, ascending, of the segments of one class.
RECURSIVE SegmentsOfClass(_, _, _)
SegmentsOfClass(segs, class, i) ==
    IF i > Len(segs) THEN <<>>
    ELSE IF segs[i].name.classidx = class
         THEN <<i>> \o SegmentsOfClass(segs, class, i + 1)
         ELSE SegmentsOfClass(segs, class, i + 1)

\* pass1.rs 196-211 without the class branch: plain insertion order.
ClassRunInsertionOrder(segs, index) == <<index>>

\* pass1.rs 196-211: what one unplaced segment appends to the order.
ClassRun(segs, index) ==
    IF segs[index].name.classidx = 0 THEN <<index>>
    ELSE SegmentsOfClass(segs, segs[index].name.classidx, 1)

SeqRange(q) == {q[i] : i \in 1..Len(q)}

RECURSIVE ComputeOrder(_, _, _, _)
\* pass1.rs 186-213: the loop over the segments in insertion order.
ComputeOrder(segs, index, order, placed) ==
    IF index > Len(segs) THEN order
    ELSE IF index \in placed
         THEN ComputeOrder(segs, index + 1, order, placed)
         ELSE LET run == ClassRun(segs, index) IN
              ComputeOrder(segs, index + 1, order \o run, placed \cup SeqRange(run))

\* pass1.rs 223: the base of the next segment.
NextBaseUnaligned(segment, next_base) == next_base

NextBase(segment, next_base) == align_by(segment.align, next_base)

RECURSIVE AssignBases(_, _, _, _)
\* pass1.rs 218-226: the loop over the order, assigning linear bases.
AssignBases(segs, order, k, next_base) ==
    IF k > Len(order) THEN segs
    ELSE LET index == order[k]
             base == NextBase(segs[index], next_base) IN
         AssignBases([segs EXCEPT ![index].base = base], order, k + 1,
                     base + segs[index].length)

\* As MinBaseMember, but the first member is taken for the lowest.
MinBaseMemberIsFirst(segs, members, k, best) ==
    IF members = <<>> THEN 0 ELSE members[1]

RECURSIVE MinBaseMember(_, _, _, _)
\* pass1.rs 235: Iterator::min_by over the members, by segment base; the
\* first of several equal minima is kept.  0 for a group without members.
MinBaseMember(segs, members, k, best) ==
    IF k > Len(members) THEN best
    ELSE IF best = 0 \/ segs[members[k]].base < segs[best].base
         THEN MinBaseMember(segs, members, k + 1, members[k])
         ELSE MinBaseMember(segs, members, k + 1, best)

\* pass1.rs 233-240: the base of one group.
GroupWithBase(segs, group) ==
    LET base == MinBaseMember(segs, group.members, 1, 0) IN
    IF base # 0 THEN [group EXCEPT !.base = segs[base].base] ELSE group

(***************************************************************************)
(* The symbol-table specification: any sequence of update calls.           *)
(***************************************************************************)
SymInit ==
    /\ symbols = EmptyMap
    /\ updates = <<>>
    /\ symbolsBefore = EmptyMap
    /\ seg = NoSegment /\ segBefore = NoSegment /\ segCall = NoSegCall /\ segCount = 0
    /\ LinkState_new
    /\ NoLibraries
    /\ NoExe
    /\ NoRecord
    /\ NoPass2
    /\ NoLookup

Update(name, symbol) ==
    /\ Len(updates) < MaxUpdates
    /\ LET r == SymbolTable_update(symbols, name, symbol) IN
         /\ symbols' = r.symbols
         /\ updates' = Append(updates, [name |-> name, symbol |-> symbol, ok |-> r.ok])
    /\ symbolsBefore' = symbols
    /\ UNCHANGED <<segVars, linkVars, libVars, dictVars, exeVars, p2Vars, recVars>>

SymNext == \E name \in Names, symbol \in SymbolInputs : Update(name, symbol)

SpecSym == SymInit /\ [][SymNext]_vars


(***************************************************************************)
(* The add_segdef specification: a Segment built as the unit tests build   *)
(* it (any length up to 64k), then any sequence of add_segdef calls.       *)
(***************************************************************************)
SegInitLengths == {0, 1000, 65528, 65536}
SegInitAligns == {"Byte", "Para"}
SegdefLengths == {0, 1, 8, 500, 65536, 65537}
SegdefAligns == {"Byte", "Word", "Para", "Page"}

SegdefInputs ==
    {SegDef_new(1, len, 0, a, c) :
        len \in SegdefLengths, a \in SegdefAligns, c \in Combines}

SegInit ==
    /\ seg \in {Segment_new(SegName_new(0, 0, 0), len, a, c) :
                   len \in SegInitLengths, a \in SegInitAligns, c \in Combines}
    /\ segBefore = seg
    /\ segCall = NoSegCall
    /\ segCount = 0
    /\ symbols = EmptyMap /\ updates = <<>> /\ symbolsBefore = EmptyMap
    /\ LinkState_new
    /\ NoLibraries
    /\ NoExe
    /\ NoRecord
    /\ NoPass2
    /\ NoLookup

AddSegdef(segdef) ==
    /\ segCount < MaxSegCalls
    /\ LET r == Segment_add_segdef(seg, segdef) IN
         /\ seg' = r.segment
         /\ segCall' = [segdef |-> segdef, ok |-> r.ok, offset |-> r.offset]
    /\ segBefore' = seg
    /\ segCount' = segCount + 1
    /\ UNCHANGED <<symVars, linkVars, libVars, dictVars, exeVars, p2Vars, recVars>>

SegNext == \E segdef \in SegdefInputs : AddSegdef(segdef)

SpecSeg == SegInit /\ [][SegNext]_vars


(***************************************************************************)
(* The Pass 1 specification: objects are read record by record (LNAMES,    *)
(* SEGDEF), then the memory map is built.  The first handler that returns  *)
(* Err ends pass 1.                                                        *)
(***************************************************************************)

\* The LNAMES records of the objects read.
LnamesRecords == {<<"A", "B">>, <<"B", "A">>}

SegdefRec(acbp, length, nameidx, classidx, ovlyidx) ==
    [acbp |-> acbp, length |-> length, nameidx |-> nameidx,
     classidx |-> classidx, ovlyidx |-> ovlyidx]

\* The SEGDEF records of the objects read.  ACBP 0x68 = Para Public,
\* 0x28 = Byte Public, 0x48 = Word Public, 0x74 = Para Stack,
\* 0x78 = Para Common, 0x29 = Byte Public with the B bit, 0x20 = Byte
\* Private, 0xE0 = an invalid alignment.
SegdefRecords ==
    { SegdefRec(104, 591, 1, 2, 0),
      SegdefRec(40, 8, 2, 1, 0),
      SegdefRec(72, 3, 1, 0, 0),
      SegdefRec(116, 256, 2, 2, 0),
      SegdefRec(120, 32, 1, 1, 0),
      SegdefRec(41, 0, 2, 0, 0),
      SegdefRec(41, 8, 2, 0, 0),
      SegdefRec(32, 8, 2, 0, 0),
      SegdefRec(224, 8, 1, 0, 0),
      SegdefRec(104, 8, 3, 0, 0) }

\* The number of SegDefs recorded so far, over all objects.
RECURSIVE TotalSegdefs(_)
TotalSegdefs(objs) ==
    IF objs = <<>> THEN 0
    ELSE Len(Head(objs).segdefs) + TotalSegdefs(Tail(objs))

Pass1Init ==
    /\ LinkState_new
    /\ symbols = EmptyMap /\ updates = <<>> /\ symbolsBefore = EmptyMap
    /\ seg = NoSegment /\ segBefore = NoSegment /\ segCall = NoSegCall /\ segCount = 0
    /\ NoLibraries
    /\ NoExe
    /\ NoRecord
    /\ NoPass2
    /\ NoLookup

\* pass1.rs 66-72: the next command-line object is opened.
NewObject ==
    /\ phase = "pass1"
    /\ Len(objects) < MaxObjects
    /\ objects' = Append(objects, Object_new)
    /\ UNCHANGED <<lnames, segments, groups, segment_order, phase, symVars, segVars,
                   libVars, dictVars, exeVars, p2Vars, recVars>>

\* pass1.rs 597: an LNAMES record of the object being read.
Lnames(rec) ==
    /\ phase = "pass1"
    /\ objects # <<>>
    /\ Last(objects).lnames = <<>>
    /\ LET r == pass1_lnames(lnames, Last(objects).lnames, rec) IN
         /\ lnames' = r.names
         /\ objects' = [objects EXCEPT ![Len(objects)].lnames = r.objlnames]
    /\ UNCHANGED <<segments, groups, segment_order, phase, symVars, segVars,
                   libVars, dictVars, exeVars, p2Vars, recVars>>

\* pass1.rs 598, 612-621: a SEGDEF record of the object being read.
Segdef(rec) ==
    /\ phase = "pass1"
    /\ objects # <<>>
    /\ TotalSegdefs(objects) < MaxSegdefs
    /\ LET r == pass1_segdef(segments, Last(objects), rec) IN
         /\ segments' = r.segments
         /\ objects' = [objects EXCEPT ![Len(objects)].segdefs = r.segdefs]
         /\ phase' = IF r.ok THEN "pass1" ELSE "failed"
    /\ UNCHANGED <<lnames, groups, segment_order, symVars, segVars, libVars, dictVars,
                   exeVars, p2Vars, recVars>>

\* pass1.rs 185-243: the segments are ordered and placed, the groups based.
pass1_build_memory_map ==
    LET order == ComputeOrder(segments, 1, <<>>, {})
        placed == AssignBases(segments, order, 1, 0) IN
      /\ segments' = placed
      /\ segment_order' = order
      /\ groups' = [i \in 1..Len(groups) |-> GroupWithBase(placed, groups[i])]

\* pass1.rs 74-75: after the last object, with no symbol undefined the
\* library loop adds no module, and the memory map is built.
BuildMemoryMap ==
    /\ phase = "pass1"
    /\ undefined_symbols(symbols) = {}
    /\ pass1_build_memory_map
    /\ phase' = "mapped"
    /\ UNCHANGED <<lnames, objects, symVars, segVars, libVars, dictVars, exeVars,
                   p2Vars, recVars>>

Pass1Next ==
    \/ NewObject
    \/ \E rec \in LnamesRecords : Lnames(rec)
    \/ \E rec \in SegdefRecords : Segdef(rec)
    \/ BuildMemoryMap

SpecPass1 == Pass1Init /\ [][Pass1Next]_vars

(***************************************************************************)
(* The group specification: Pass 1 over objects with LNAMES, SEGDEF and    *)
(* GRPDEF records, then the memory map.                                    *)
(***************************************************************************)

\* The LNAMES record of the objects read.
GroupLnamesRecords == {<<"A", "B", "G">>}

\* The SEGDEF records of the objects read: A of class B (Para Public),
\* B without a class (Byte Public), G of class B (Word Public).
GroupSegdefRecords ==
    { SegdefRec(104, 591, 1, 2, 0),
      SegdefRec(40, 8, 2, 0, 0),
      SegdefRec(72, 3, 3, 2, 0) }

GrpdefRec(nameidx, members) == [nameidx |-> nameidx, members |-> members]

\* The GRPDEF records of the objects read; the members are SEGDEF indices of
\* the object.  The last two have an invalid name and an invalid segment.
GrpdefRecords ==
    { GrpdefRec(3, <<1, 2>>),
      GrpdefRec(3, <<2, 1>>),
      GrpdefRec(1, <<2, 3>>),
      GrpdefRec(3, <<>>),
      GrpdefRec(4, <<1>>),
      GrpdefRec(1, <<1, 4>>) }

\* The number of GRPDEF records accepted so far, over all objects.
RECURSIVE TotalGrpdefs(_)
TotalGrpdefs(objs) ==
    IF objs = <<>> THEN 0
    ELSE Len(Head(objs).grpdefs) + TotalGrpdefs(Tail(objs))

\* pass1.rs 599, 612-621: a GRPDEF record of the object being read.
Grpdef(rec) ==
    /\ phase = "pass1"
    /\ objects # <<>>
    /\ TotalGrpdefs(objects) < MaxGrpdefs
    /\ LET r == pass1_grpdef(groups, segments, Last(objects), rec) IN
         /\ groups' = r.groups
         /\ segments' = r.segments
         /\ objects' = [objects EXCEPT ![Len(objects)].grpdefs = r.grpdefs]
         /\ phase' = IF r.ok THEN "pass1" ELSE "failed"
    /\ UNCHANGED <<lnames, segment_order, symVars, segVars, libVars, dictVars,
                   exeVars, p2Vars, recVars>>

GroupNext ==
    \/ NewObject
    \/ \E rec \in GroupLnamesRecords : Lnames(rec)
    \/ \E rec \in GroupSegdefRecords : Segdef(rec)
    \/ \E rec \in GrpdefRecords : Grpdef(rec)
    \/ BuildMemoryMap

SpecGroup == Pass1Init /\ [][GroupNext]_vars

(***************************************************************************)
(* library.rs : a Library is its dictionary and its modules.  A record of  *)
(* an object file is [type, ...its fields].                                *)
(***************************************************************************)

\* str::to_lowercase, on an ASCII name.
to_lowercase(s) ==
    [i \in 1..Len(s) |-> IF s[i] \in 65..90 THEN s[i] + 32 ELSE s[i]]

\* library.rs 128: every Library is constructed with case_sensitive: false.
case_sensitive == FALSE

\* library.rs 282-286: the comparison of a dictionary key with the symbol.
KeyMatches(key, symbol) ==
    IF case_sensitive THEN key = symbol
    ELSE to_lowercase(key) = to_lowercase(symbol)

\* library.rs 31-32.
DICT_BLOCK_SIZE == 512
BLOCK_BUCKETS == 37

RECURSIVE BitXor(_, _)
\* The bitwise XOR of two naturals.
BitXor(x, y) ==
    IF x = 0 THEN y
    ELSE IF y = 0 THEN x
    ELSE ((x + y) % 2) + 2 * BitXor(x \div 2, y \div 2)

\* library.rs 195, 208, 216: a byte OR-ed with BLANK = 0x20.
OrBlank(c) == IF (c \div 32) % 2 = 1 THEN c ELSE c + 32

\* library.rs 205-206: the rotations of a u16 by two bits.
rotr2(x) == (x \div 4) + (x % 4) * 16384
rotl2(x) == ((x * 4) % 65536) + (x \div 16384)

\* library.rs 208-225: round k of the loop takes the k-th byte from the back
\* and, unless it was the last round, the k-th byte from the front.
\* h = [block, bucket, block_delta, bucket_delta]; positions are 1-based.
HashRound(bytes, k, h) ==
    LET cback == OrBlank(bytes[Len(bytes) - k + 1])
        h1 == [h EXCEPT !.bucket = BitXor(rotr2(@), cback),
                        !.block_delta = BitXor(rotl2(@), cback)]
    IN IF k = Len(bytes) THEN h1
       ELSE LET cfront == OrBlank(bytes[k]) IN
            [h1 EXCEPT !.block = BitXor(rotl2(@), cfront),
                       !.bucket_delta = BitXor(rotr2(@), cfront)]

RECURSIVE HashLoop(_, _, _, _)
\* library.rs 208-225: the rounds lo..hi of the loop, in order; the test on
\* `first` has the first half evaluated before the second is entered.
HashLoop(bytes, lo, hi, h) ==
    IF lo = hi THEN HashRound(bytes, lo, h)
    ELSE LET mid == (lo + hi) \div 2
             first == HashLoop(bytes, lo, mid, h)
         IN IF first.block >= 0 THEN HashLoop(bytes, mid + 1, hi, first) ELSE first

\* As PromoteDelta, but a zero delta stays zero.
PromoteDeltaKeepsZero(delta) == delta

\* library.rs 232-233: a zero delta becomes 1.
PromoteDelta(delta) == IF delta = 0 THEN 1 ELSE delta

\* library.rs 185-242: the hash of a non-empty name, for a dictionary of
\* nblocks blocks.  The positions of bytes are 1-based here.
hash_symbol(nblocks, symbol) ==
    LET len == Len(symbol)
        h == HashLoop(symbol, 1, len,
                      [block |-> OrBlank(len), bucket_delta |-> OrBlank(len),
                       block_delta |-> 0, bucket |-> 0])
    IN [block |-> h.block % nblocks,
        bucket |-> h.bucket % BLOCK_BUCKETS,
        block_delta |-> PromoteDelta(h.block_delta % nblocks),
        bucket_delta |-> PromoteDelta(h.bucket_delta % BLOCK_BUCKETS)]

\* A bucket head of 0: no entry.
NoEntry == [key |-> <<>>, page |-> 0]

\* The walk of find_symbol_in_dictionary before its first probe.
\* library.rs 252, 257.
StartWalk(hash) ==
    [block |-> hash.block, bucket |-> hash.bucket, probes |-> 0,
     status |-> "walking", page |-> 0]

\* As BlockWasFull, but the walk goes on only from a block that is not full.
BlockWasFullInverted(block) == ~block.full

\* library.rs 305-308: byte 37 of the block is 0xff.
BlockWasFull(block) == block.full

\* library.rs 254-314: one probe of the walk w.  A dictionary is
\* [nblocks, blocks], a block [buckets, full, free] with the entry
\* [key, page] of each bucket head.
ProbeStep(dict, hash, symbol, w) ==
    LET head == dict.blocks[w.block].buckets[w.bucket]
        bucket == (w.bucket + hash.bucket_delta) % BLOCK_BUCKETS
        block == (w.block + hash.block_delta) % dict.nblocks
        probed == [w EXCEPT !.probes = @ + 1]
    IN IF head # NoEntry /\ KeyMatches(head.key, symbol)
       THEN [probed EXCEPT !.status = "found", !.page = head.page]
       ELSE IF bucket # hash.bucket
            THEN [probed EXCEPT !.bucket = bucket]
            ELSE IF ~BlockWasFull(dict.blocks[w.block])
                 THEN [probed EXCEPT !.status = "notfound"]
                 ELSE IF block = hash.block
                      THEN [probed EXCEPT !.status = "notfound"]
                      ELSE [probed EXCEPT !.block = block, !.bucket = hash.bucket]

RECURSIVE Walk(_, _, _, _)
\* library.rs 254-314: the probes up to the return.
Walk(dict, hash, symbol, w) ==
    IF w.status # "walking" THEN w
    ELSE Walk(dict, hash, symbol, ProbeStep(dict, hash, symbol, w))

\* library.rs 248-317.  [found, page].
find_symbol_in_dictionary(dict, symbol) ==
    LET hash == hash_symbol(dict.nblocks, symbol)
        w == Walk(dict, hash, symbol, StartWalk(hash))
    IN [found |-> w.status = "found", page |-> w.page]

(***************************************************************************)
(* The dictionary as the librarian writes it: a key goes into the first    *)
(* block of its probe chain that has room for it, at the first free bucket *)
(* of its bucket chain; a block that could not take a key is marked full.  *)
(***************************************************************************)

EmptyBlock ==
    [buckets |-> [b \in 0..(BLOCK_BUCKETS - 1) |-> NoEntry], full |-> FALSE,
     free |-> BLOCK_BUCKETS + 1]

EmptyDictionary(nblocks) ==
    [nblocks |-> nblocks, blocks |-> [b \in 0..(nblocks - 1) |-> EmptyBlock]]

\* The bytes of an entry [len:u8][name][page:u16], kept word aligned.
EntrySize(key) == ((1 + Len(key) + 2 + 1) \div 2) * 2

RECURSIVE FreeBucket(_, _, _, _)
\* The first free bucket of the chain from `bucket`, or -1.
FreeBucket(block, hash, bucket, tried) ==
    IF tried = BLOCK_BUCKETS THEN -1
    ELSE IF block.buckets[bucket] = NoEntry THEN bucket
    ELSE FreeBucket(block, hash, (bucket + hash.bucket_delta) % BLOCK_BUCKETS,
                    tried + 1)

RECURSIVE InsertFrom(_, _, _, _, _, _)
\* [ok, dict]: the entry is placed in the block b or a later one.
InsertFrom(dict, hash, key, page, b, tried) ==
    IF tried = dict.nblocks THEN [ok |-> FALSE, dict |-> dict]
    ELSE LET block == dict.blocks[b]
             bucket == FreeBucket(block, hash, hash.bucket, 0)
         IN IF ~block.full /\ bucket # -1
               /\ block.free + EntrySize(key) <= DICT_BLOCK_SIZE
            THEN [ok |-> TRUE,
                  dict |-> [dict EXCEPT !.blocks[b] =
                      [block EXCEPT !.buckets[bucket] = [key |-> key, page |-> page],
                                    !.free = @ + EntrySize(key)]]]
            ELSE InsertFrom([dict EXCEPT !.blocks[b].full = TRUE], hash, key, page,
                            (b + hash.block_delta) % dict.nblocks, tried + 1)

DictionaryInsert(dict, key, page) ==
    LET hash == hash_symbol(dict.nblocks, key) IN
    InsertFrom(dict, hash, key, page, hash.block, 0)

RECURSIVE DictionaryOf(_, _)
\* The dictionary of nblocks blocks with the given [key, page] entries.
DictionaryOf(nblocks, entries) ==
    IF entries = <<>> THEN EmptyDictionary(nblocks)
    ELSE DictionaryInsert(DictionaryOf(nblocks, SubSeq(entries, 1, Len(entries) - 1)),
                          Last(entries).key, Last(entries).page).dict

\* library.rs 135-176: the records of the module that starts at modpage.
extract_module(lib, modpage) == lib.modules[modpage]

(***************************************************************************)
(* pass1.rs : EXTDEF, PUBDEF, pass1_object, the library modules.           *)
(***************************************************************************)

RECURSIVE pass1_extdef(_, _, _)
\* pass1.rs 347-370: every name is entered as Undefined and appended to the
\* object's extdefs.  [ok, symbols, extdefs].
pass1_extdef(tab, extdefs, names) ==
    IF names = <<>> THEN [ok |-> TRUE, symbols |-> tab, extdefs |-> extdefs]
    ELSE LET r == SymbolTable_update(tab, Head(names), Undefined) IN
         IF ~r.ok THEN [ok |-> FALSE, symbols |-> r.symbols, extdefs |-> extdefs]
         ELSE pass1_extdef(r.symbols, Append(extdefs, Head(names)), Tail(names))

\* As PubdefOffset, without the test of pass1.rs 410-412: `segoffs as u16`
\* truncates.
PubdefOffsetTruncates(segment, segbase, seglen, offset) ==
    IF segment = 0 THEN [ok |-> TRUE, segoffs |-> offset]
    ELSE IF offset >= seglen /\ ~(offset = 0 /\ seglen = 0)
         THEN [ok |-> FALSE, segoffs |-> 0]
         ELSE [ok |-> TRUE, segoffs |-> (segbase + offset) % 65536]

\* pass1.rs 401-416: the offset of a public in its global segment.
\* [ok, segoffs].
PubdefOffset(segment, segbase, seglen, offset) ==
    IF segment = 0 THEN [ok |-> TRUE, segoffs |-> offset]
    ELSE IF offset >= seglen /\ ~(offset = 0 /\ seglen = 0)
         THEN [ok |-> FALSE, segoffs |-> 0]
         ELSE IF segbase + offset > 65535
              THEN [ok |-> FALSE, segoffs |-> 0]
              ELSE [ok |-> TRUE, segoffs |-> segbase + offset]

RECURSIVE PubdefNames(_, _, _, _, _, _, _)
\* pass1.rs 397-427: the loop over the publics of the record.  [ok, symbols].
PubdefNames(tab, publics, group, segment, baseframe, segbase, seglen) ==
    IF publics = <<>> THEN UpdateOk(tab)
    ELSE LET o == PubdefOffset(segment, segbase, seglen, Head(publics).offset) IN
         IF ~o.ok THEN UpdateErr(tab)
         ELSE LET r == SymbolTable_update(tab, Head(publics).name,
                          Symbol_public(group, segment, baseframe, o.segoffs)) IN
              IF ~r.ok THEN r
              ELSE PubdefNames(r.symbols, Tail(publics), group, segment,
                               baseframe, segbase, seglen)

\* pass1.rs 374-431.  [ok, symbols].
pass1_pubdef(tab, obj, rec) ==
    LET baseframe == IF rec.segment = 0 THEN rec.frame ELSE 0 IN
    IF ~IndexMap_is_valid_index(obj.grpdefs, rec.group) THEN UpdateErr(tab)
    ELSE IF rec.segment # 0 /\ ~OmfVec_is_valid_index(obj.segdefs, rec.segment)
         THEN UpdateErr(tab)
         ELSE LET group == IndexMap_get(obj.grpdefs, rec.group)
                  segbase == IF rec.segment = 0 THEN 0
                             ELSE obj.segdefs[rec.segment].base
                  seglen == IF rec.segment = 0 THEN 0
                            ELSE obj.segdefs[rec.segment].length
                  segment == IF rec.segment = 0 THEN 0
                             ELSE obj.segdefs[rec.segment].segidx IN
              PubdefNames(tab, rec.publics, group, segment, baseframe,
                          segbase, seglen)

\* pass1.rs 592-609: one record of an object, on the state
\* st = [ok, symbols, lnames, segments, groups, obj].
pass1_record(st, rec) ==
    CASE rec.type \in {"THEADR", "COMENT", "LEDATA", "LIDATA", "FIXUPP"} -> st
      [] rec.type = "EXTDEF" ->
            LET r == pass1_extdef(st.symbols, st.obj.extdefs, rec.names) IN
            [st EXCEPT !.ok = r.ok, !.symbols = r.symbols,
                       !.obj.extdefs = r.extdefs]
      [] rec.type = "PUBDEF" ->
            LET r == pass1_pubdef(st.symbols, st.obj, rec) IN
            [st EXCEPT !.ok = r.ok, !.symbols = r.symbols]
      [] rec.type = "LNAMES" ->
            LET r == pass1_lnames(st.lnames, st.obj.lnames, rec.names) IN
            [st EXCEPT !.lnames = r.names, !.obj.lnames = r.objlnames]
      [] rec.type = "SEGDEF" ->
            LET r == pass1_segdef(st.segments, st.obj, rec.segdef) IN
            [st EXCEPT !.ok = r.ok, !.segments = r.segments,
                       !.obj.segdefs = r.segdefs]
      [] rec.type = "GRPDEF" ->
            LET r == pass1_grpdef(st.groups, st.segments, st.obj, rec.grpdef) IN
            [st EXCEPT !.ok = r.ok, !.groups = r.groups,
                       !.segments = r.segments, !.obj.grpdefs = r.grpdefs]
      [] OTHER -> [st EXCEPT !.ok = FALSE]

RECURSIVE pass1_object(_, _)
\* pass1.rs 585-627: the records in order, up to MODEND or the first Err.
pass1_object(st, data) ==
    IF data = <<>> \/ Head(data).type = "MODEND" THEN st
    ELSE LET r == pass1_record(st, Head(data)) IN
         IF ~r.ok THEN r ELSE pass1_object(r, Tail(data))

RECURSIVE pass1_obj_externs(_)
\* pass1.rs 250-272: the names of the EXTDEF and COMDEF records.
pass1_obj_externs(data) ==
    IF data = <<>> THEN <<>>
    ELSE (IF Head(data).type \in {"EXTDEF", "COMDEF"}
          THEN Head(data).names ELSE <<>>) \o pass1_obj_externs(Tail(data))

\* pass1.rs 13-17.
LibraryModule(lib, modpage) == [lib |-> lib, modpage |-> modpage]

\* pass1.rs 19-33: Ordering::Less.
LibraryModule_less(a, b) ==
    \/ a.lib < b.lib
    \/ a.lib = b.lib /\ a.modpage < b.modpage

\* As LibraryModules_add, without the test of `has`.
LibraryModules_push(m, module) == Append(m, module)

\* pass1.rs 44-52: a module is pushed unless it is there already.
LibraryModules_add(m, module) ==
    IF \E i \in 1..Len(m) : m[i] = module THEN m ELSE Append(m, module)

RECURSIVE SortInsert(_, _)
SortInsert(sorted, module) ==
    IF sorted = <<>> THEN <<module>>
    ELSE IF LibraryModule_less(module, Head(sorted))
         THEN <<module>> \o sorted
         ELSE <<Head(sorted)>> \o SortInsert(Tail(sorted), module)

\* As SortMods, but the modules stay in the order they were found in.
SortModsKeepsOrder(m) == m

RECURSIVE SortMods(_)
\* pass1.rs 168: mods.mods.sort().
SortMods(m) ==
    IF m = <<>> THEN <<>>
    ELSE SortInsert(SortMods(SubSeq(m, 1, Len(m) - 1)), Last(m))

RECURSIVE SearchLibraries(_, _, _)
\* pass1.rs 115-121: the libraries in command-line order, from position
\* libidx on; the first whose dictionary has the name.  [found, module].
SearchLibraries(ls, libidx, ext) ==
    IF libidx > Len(ls) THEN [found |-> FALSE, module |-> LibraryModule(0, 0)]
    ELSE LET r == find_symbol_in_dictionary(ls[libidx].dictionary, ext) IN
         IF r.found THEN [found |-> TRUE, module |-> LibraryModule(libidx, r.page)]
         ELSE SearchLibraries(ls, libidx + 1, ext)

\* pass1.rs 104-108: the name is resolved by a module already loaded.
AlreadyResolved(tab, ext) == ext \in DOMAIN tab /\ ~IsUndefined(tab[ext])

\* pass1.rs 148-159: the externs of the modules added since undstart.
NewExterns(ls, m, start) ==
    UNION {SeqRange(pass1_obj_externs(extract_module(ls[m[i].lib], m[i].modpage))) :
             i \in (start + 1)..Len(m)}

(***************************************************************************)
(* The link specification: the command-line objects are read record by      *)
(* record (EXTDEF, PUBDEF), then pass1_add_library_modules searches the    *)
(* libraries, ingests the modules it selected, and the memory map is       *)
(* built.                                                                  *)
(***************************************************************************)

ExtdefRec(names) == [type |-> "EXTDEF", names |-> names]

PubdefRec(group, segment, frame, publics) ==
    [type |-> "PUBDEF", group |-> group, segment |-> segment, frame |-> frame,
     publics |-> publics]

\* A PUBDEF of one absolute symbol: no group, no segment, frame 0x40.
AbsolutePubdef(name) == PubdefRec(0, 0, 64, <<[name |-> name, offset |-> 8]>>)

\* The EXTDEF records of the command-line objects.
ExtdefRecords ==
    {ExtdefRec(<<n>>) : n \in Names} \cup {ExtdefRec(<<NameLowerF, NameLowerB>>)}

\* The PUBDEF records of the command-line objects.
PubdefRecords == {AbsolutePubdef(n) : n \in Names}

\* A library module that defines one name and refers to others.
Module(name, externs) ==
    <<[type |-> "THEADR"], ExtdefRec(externs), AbsolutePubdef(name),
      [type |-> "MODEND"]>>

\* A library whose two modules need each other: page 1 defines "F" and
\* refers to "b", page 2 defines "b" and refers to "F".
LibCycle ==
    [modules |-> [p \in {1, 2} |-> IF p = 1 THEN Module(NameUpperF, <<NameLowerB>>)
                                   ELSE Module(NameLowerB, <<NameUpperF>>)],
     dictionary |-> DictionaryOf(2, <<[key |-> NameUpperF, page |-> 1],
                                      [key |-> NameLowerB, page |-> 2]>>)]

\* A library of one module, at page 3, that defines "b".
LibLeaf ==
    [modules |-> [p \in {3} |-> Module(NameLowerB, <<>>)],
     dictionary |-> DictionaryOf(2, <<[key |-> NameLowerB, page |-> 3]>>)]

\* The library lists of the command line.
LibraryInputs ==
    {<<>>, <<LibCycle>>, <<LibLeaf>>, <<LibLeaf, LibCycle>>, <<LibCycle, LibLeaf>>}

LinkInit ==
    /\ LinkState_new
    /\ symbols = EmptyMap /\ updates = <<>> /\ symbolsBefore = EmptyMap
    /\ seg = NoSegment /\ segBefore = NoSegment /\ segCall = NoSegCall /\ segCount = 0
    /\ recordsRead = 0
    /\ libs \in LibraryInputs
    /\ mods = <<>>
    /\ undstart = 0
    /\ undefined = 0
    /\ und = {}
    /\ ingested = 0
    /\ NoLookup
    /\ NoExe
    /\ NoRecord
    /\ NoPass2

\* pass1.rs 596, 612-621: an EXTDEF record of the object being read.
Extdef(rec) ==
    /\ phase = "pass1"
    /\ objects # <<>>
    /\ recordsRead < MaxRecords
    /\ LET r == pass1_extdef(symbols, Last(objects).extdefs, rec.names) IN
         /\ symbols' = r.symbols
         /\ objects' = [objects EXCEPT ![Len(objects)].extdefs = r.extdefs]
         /\ phase' = IF r.ok THEN "pass1" ELSE "failed"
    /\ recordsRead' = recordsRead + 1
    /\ UNCHANGED <<updates, symbolsBefore, segVars, lnames, segments, groups,
                   segment_order, libs, dictVars, mods, undstart, undefined, und, ingested,
                   exeVars, p2Vars, recVars>>

\* pass1.rs 598, 612-621: a PUBDEF record of the object being read.
Pubdef(rec) ==
    /\ phase = "pass1"
    /\ objects # <<>>
    /\ recordsRead < MaxRecords
    /\ LET r == pass1_pubdef(symbols, Last(objects), rec) IN
         /\ symbols' = r.symbols
         /\ phase' = IF r.ok THEN "pass1" ELSE "failed"
    /\ recordsRead' = recordsRead + 1
    /\ UNCHANGED <<updates, symbolsBefore, segVars, lnames, segments, groups,
                   segment_order, objects, libs, dictVars, mods, undstart, undefined, und,
                   ingested, exeVars, p2Vars, recVars>>

\* pass1.rs 74, 86-92: after the last object, the library loop is entered
\* with the undefined symbols of the table.
AddLibraryModules ==
    /\ phase = "pass1"
    /\ phase' = "search"
    /\ mods' = <<>>
    /\ undstart' = 0
    /\ undefined' = 0
    /\ und' = undefined_symbols(symbols)
    /\ UNCHANGED <<symVars, segVars, lnames, segments, groups, segment_order,
                   objects, recordsRead, libs, dictVars, ingested, exeVars,
                   p2Vars, recVars>>

\* pass1.rs 99-127: one iteration of `for ext in und`; the Vec comes from a
\* hash container, so the names are visited in any order.
SearchExt(ext) ==
    /\ phase = "search"
    /\ ext \in und
    /\ und' = und \ {ext}
    /\ IF AlreadyResolved(symbols, ext)
       THEN UNCHANGED <<mods, undefined>>
       ELSE LET r == SearchLibraries(libs, 1, ext) IN
            IF r.found
            THEN mods' = LibraryModules_add(mods, r.module) /\ UNCHANGED undefined
            ELSE undefined' = undefined + 1 /\ UNCHANGED mods
    /\ UNCHANGED <<symVars, segVars, linkVars, recordsRead, libs, dictVars, undstart,
                   ingested, exeVars, p2Vars, recVars>>

\* pass1.rs 129-168: after the for loop: Err when a name was not found; the
\* loop is left when no module was added or the new modules have no
\* externs, and then the modules are sorted; else the next round visits the
\* externs of the new modules.
EndOfRound ==
    /\ phase = "search"
    /\ und = {}
    /\ IF undefined # 0
       THEN phase' = "failed" /\ UNCHANGED <<mods, undstart, und>>
       ELSE IF undstart = Len(mods)
            THEN phase' = "ingest" /\ mods' = SortMods(mods)
                 /\ UNCHANGED <<undstart, und>>
            ELSE LET new_externs == NewExterns(libs, mods, undstart) IN
                 /\ undstart' = Len(mods)
                 /\ IF new_externs = {}
                    THEN phase' = "ingest" /\ mods' = SortMods(mods)
                         /\ UNCHANGED und
                    ELSE phase' = "search" /\ und' = new_externs
                         /\ UNCHANGED mods
    /\ UNCHANGED <<symVars, segVars, lnames, segments, groups, segment_order,
                   objects, recordsRead, libs, dictVars, undefined, ingested,
                   exeVars, p2Vars, recVars>>

\* pass1.rs 170-177: the next module of the sorted list goes through
\* pass1_object and is pushed on the objects.
IngestModule ==
    /\ phase = "ingest"
    /\ ingested < Len(mods)
    /\ LET moddef == mods[ingested + 1]
           data == extract_module(libs[moddef.lib], moddef.modpage)
           r == pass1_object([ok |-> TRUE, symbols |-> symbols, lnames |-> lnames,
                              segments |-> segments, groups |-> groups,
                              obj |-> Object_new], data) IN
         /\ symbols' = r.symbols
         /\ lnames' = r.lnames
         /\ segments' = r.segments
         /\ groups' = r.groups
         /\ objects' = IF r.ok THEN Append(objects, r.obj) ELSE objects
         /\ phase' = IF r.ok THEN "ingest" ELSE "failed"
    /\ ingested' = ingested + 1
    /\ UNCHANGED <<updates, symbolsBefore, segVars, segment_order,
                   recordsRead, libs, dictVars, mods, undstart, undefined, und,
                   exeVars, p2Vars, recVars>>

\* pass1.rs 75, 179: every module is ingested; the memory map is built and
\* pass1 returns Ok.
FinishPass1 ==
    /\ phase = "ingest"
    /\ ingested = Len(mods)
    /\ pass1_build_memory_map
    /\ phase' = "mapped"
    /\ UNCHANGED <<lnames, objects, symVars, segVars, libVars, dictVars, exeVars,
                   p2Vars, recVars>>

LinkNext ==
    \/ NewObject
    \/ \E rec \in ExtdefRecords : Extdef(rec)
    \/ \E rec \in PubdefRecords : Pubdef(rec)
    \/ AddLibraryModules
    \/ \E ext \in Names : SearchExt(ext)
    \/ EndOfRound
    \/ IngestModule
    \/ FinishPass1

SpecLink == LinkInit /\ [][LinkNext]_vars

\* pass1.rs 99: an iteration of `for ext in und`, told by what it does to
\* und; of the steps of LinkNext these are the steps of SearchExt.
ForExtInUnd == phase = "search" /\ \E ext \in und : und' = und \ {ext}

\* pass1_add_library_modules is sequential code: once entered, every
\* iteration of its loops runs, so a step that can be taken is taken.
SpecLinkFair ==
    /\ SpecLink
    /\ WF_und(ForExtInUnd)
    /\ WF_vars(EndOfRound)

(***************************************************************************)
(* The PUBDEF specification: Pass 1 over objects with LNAMES, SEGDEF and   *)
(* PUBDEF records whose publics lie in segments.                           *)
(***************************************************************************)

\* The SEGDEF records read, all of the segment "A": 8 bytes, 0 bytes, and
\* 64k bytes (the B bit), Byte Public.
PubdefSegdefRecords ==
    { SegdefRec(40, 8, 1, 0, 0), SegdefRec(40, 0, 1, 0, 0), SegdefRec(41, 0, 1, 0, 0) }

\* The offsets of the publics read.
PubdefOffsets == {0, 2, 8, 65535}

\* The PUBDEF records read: one public in no segment, in SEGDEF 1 or 2 of
\* the object, or in a SEGDEF it does not have; and two publics, the second
\* beyond an 8 byte SEGDEF.
SegmentPubdefRecords ==
    { PubdefRec(0, s, 64, <<[name |-> NameUpperF, offset |-> o]>>) :
          s \in {0, 1, 2, 3}, o \in PubdefOffsets }
    \cup { PubdefRec(0, 1, 0, <<[name |-> NameUpperF, offset |-> 2],
                               [name |-> NameLowerB, offset |-> 8]>>) }

PubdefNext ==
    \/ NewObject
    \/ Lnames(<<"A">>)
    \/ \E rec \in PubdefSegdefRecords : Segdef(rec)
    \/ \E rec \in SegmentPubdefRecords : Pubdef(rec)

SpecPubdef == Pass1Init /\ [][PubdefNext]_vars

(***************************************************************************)
(* The dictionary specification: the librarian enters keys into an empty   *)
(* dictionary, and between entries symbols are looked up, one probe per    *)
(* step.  A library compared without regard to case holds no two keys that *)
(* differ in case only.                                                    *)
(***************************************************************************)

\* The numbers of blocks of the dictionaries.
DictBlockCounts == {2, 3}

\* A name of 250 equal characters: one such entry fills a block so that a
\* second does not fit.
LongName(c) == [i \in 1..250 |-> c]

NameCC == <<99, 99>>     \* "cc": the block and bucket of "f", of 2 blocks
NameBG == <<98, 103>>    \* "bg": the block and bucket of "f", of 3 blocks

\* The keys the librarian enters; the page of a key is its position here.
DictKeys == <<NameLowerF, NameCC, NameBG, LongName(97), LongName(98)>>

\* The symbols looked up.
LookupSymbols == SeqRange(DictKeys) \cup {NameUpperF, NameLowerB}

\* The entries of a dictionary.
EntriesOf(dict) ==
    {dict.blocks[b].buckets[k] :
        b \in 0..(dict.nblocks - 1), k \in 0..(BLOCK_BUCKETS - 1)} \ {NoEntry}

DictInit ==
    /\ dictionary \in {EmptyDictionary(n) : n \in DictBlockCounts}
    /\ walk = NoWalk
    /\ symbols = EmptyMap /\ updates = <<>> /\ symbolsBefore = EmptyMap
    /\ seg = NoSegment /\ segBefore = NoSegment /\ segCall = NoSegCall /\ segCount = 0
    /\ LinkState_new
    /\ NoLibraries
    /\ NoExe
    /\ NoRecord
    /\ NoPass2

\* The librarian enters the key DictKeys[i].
InsertKey(i) ==
    /\ walk = NoWalk
    /\ Cardinality(EntriesOf(dictionary)) < MaxKeys
    /\ \A e \in EntriesOf(dictionary) : to_lowercase(e.key) # to_lowercase(DictKeys[i])
    /\ LET r == DictionaryInsert(dictionary, DictKeys[i], i) IN
         /\ r.ok
         /\ dictionary' = r.dict
    /\ UNCHANGED <<walk, symVars, segVars, linkVars, libVars, exeVars, p2Vars,
                   recVars>>

\* library.rs 248-252: find_symbol_in_dictionary is called.
StartLookup(symbol) ==
    /\ walk = NoWalk
    /\ LET hash == hash_symbol(dictionary.nblocks, symbol)
           w == StartWalk(hash) IN
         walk' = [symbol |-> symbol, hash |-> hash, block |-> w.block,
                  bucket |-> w.bucket, probes |-> w.probes, status |-> w.status,
                  page |-> w.page]
    /\ UNCHANGED <<dictionary, symVars, segVars, linkVars, libVars, exeVars, p2Vars,
                   recVars>>

\* library.rs 254-314: the next probe.
Probe ==
    /\ walk.status = "walking"
    /\ walk' = ProbeStep(dictionary, walk.hash, walk.symbol, walk)
    /\ UNCHANGED <<dictionary, symVars, segVars, linkVars, libVars, exeVars, p2Vars,
                   recVars>>

\* library.rs 292, 316: find_symbol_in_dictionary returns.
EndLookup ==
    /\ walk.status \in {"found", "notfound"}
    /\ walk' = NoWalk
    /\ UNCHANGED <<dictionary, symVars, segVars, linkVars, libVars, exeVars, p2Vars,
                   recVars>>

DictNext ==
    \/ \E i \in 1..Len(DictKeys) : InsertKey(i)
    \/ \E symbol \in LookupSymbols : StartLookup(symbol)
    \/ Probe
    \/ EndLookup

SpecDict == DictInit /\ [][DictNext]_vars

(***************************************************************************)
(* linkstate.rs, dosexe.rs : FarPtr and the entry point of the DosExe.     *)
(***************************************************************************)

RECURSIVE Pow2(_)
Pow2(n) == IF n = 0 THEN 1 ELSE 2 * Pow2(n - 1)

\* A usize at or above this stands for every value beyond any image length.
Huge == Pow2(30)

RECURSIVE ShiftLeft(_, _)
\* x << n on a usize, saturated at Huge.
ShiftLeft(x, n) ==
    IF n = 0 \/ x = 0 THEN x
    ELSE IF 2 * x >= Huge THEN Huge
    ELSE ShiftLeft(2 * x, n - 1)

\* dosexe.rs 8-11.
Relocation(s, offset) == [seg |-> s, offset |-> offset]

\* dosexe.rs 23-25, linkstate.rs 26-28.
FarPtr_new(s, offset) == [seg |-> s, offset |-> offset]

\* dosexe.rs 29-31, linkstate.rs 32-34.
FarPtr_null == FarPtr_new(0, 0)

\* dosexe.rs 33-35, linkstate.rs 36-38: `+` binds tighter than `<<`, so the
\* segment is shifted by 4 + offset.  A shift of 64 or more panics in a
\* build with overflow checks and is taken modulo 64 in one without; bits
\* shifted beyond the 64 of the usize are lost.  The set of the outcomes
\* [panic, value].
FarPtr_to_linear(ptr) ==
    LET shift == 4 + ptr.offset
        masked == shift % 64
        kept == IF masked > 48 THEN ptr.seg % Pow2(64 - masked) ELSE ptr.seg
        wrapped == [panic |-> FALSE, value |-> ShiftLeft(kept, masked)]
    IN IF shift < 64 THEN {wrapped}
       ELSE {wrapped, [panic |-> TRUE, value |-> 0]}

\* dosexe.rs 49-58.
DosExe_new(len) ==
    [relocs |-> <<>>, min_alloc |-> 0, max_alloc |-> 65535,
     entry_point |-> FarPtr_null, init_stack |-> FarPtr_null, len |-> len]

\* dosexe.rs 64-66, on one outcome of to_linear.
far_ptr_in_range(e, linear, size) == linear + size <= e.len

(***************************************************************************)
(* The entry-point specification: set_entry_point is called on a DosExe    *)
(* over an image of some length.                                           *)
(***************************************************************************)

ImageLengths == {0, 1, 16, 17, 80, 4096}
EntrySegs == {0, 1, 2, 5, 4095, 65535}
EntryOffsets == {0, 1, 2, 3, 15, 16, 59, 60, 124, 65535}

EntryInit ==
    /\ exe \in {DosExe_new(len) : len \in ImageLengths}
    /\ entryCall = <<>>
    /\ file = <<>>
    /\ symbols = EmptyMap /\ updates = <<>> /\ symbolsBefore = EmptyMap
    /\ seg = NoSegment /\ segBefore = NoSegment /\ segCall = NoSegCall /\ segCount = 0
    /\ LinkState_new
    /\ NoLibraries
    /\ NoLookup
    /\ NoPass2
    /\ NoRecord

\* dosexe.rs 71-83: the outcomes [result, exe, linear], one for each
\* outcome of to_linear.
set_entry_point(e, s, offset) ==
    { LET result == IF out.panic THEN "panic"
                    ELSE IF ~far_ptr_in_range(e, out.value, 1) THEN "Err"
                    ELSE "Ok" IN
      [result |-> result,
       exe |-> IF result = "Ok" THEN [e EXCEPT !.entry_point = FarPtr_new(s, offset)]
               ELSE e,
       linear |-> out.value] : out \in FarPtr_to_linear(FarPtr_new(s, offset)) }

SetEntryPoint(s, offset) ==
    /\ \E r \in set_entry_point(exe, s, offset) :
         /\ exe' = r.exe
         /\ entryCall' = [seg |-> s, offset |-> offset, linear |-> r.linear,
                          result |-> r.result]
    /\ UNCHANGED <<file, symVars, segVars, linkVars, libVars, dictVars, p2Vars, recVars>>

EntryNext == \E s \in EntrySegs, offset \in EntryOffsets : SetEntryPoint(s, offset)

SpecEntry == EntryInit /\ [][EntryNext]_vars

(***************************************************************************)
(* pass2.rs : the memory image, the frames and bases of a fixup.           *)
(* `state` is the LinkState as a record [symbols, lnames, segments,        *)
(* groups, entry].                                                         *)
(***************************************************************************)

\* pass2.rs 146-149: a Vec<u8> of memsize zeros.
Image_new(memsize) == [len |-> memsize, bytes |-> EmptyMap]

\* image[a]
ImageByte(img, a) == IF a \in DOMAIN img.bytes THEN img.bytes[a] ELSE 0

\* image[a] = v
ImagePut(img, a, v) ==
    [img EXCEPT !.bytes =
        [x \in (IF v = 0 THEN DOMAIN @ \ {a} ELSE DOMAIN @ \cup {a}) |->
            IF x = a THEN v ELSE @[x]]]

RECURSIVE copy_from_slice(_, _, _)
\* pass2.rs 298, 351: image[base..base+data.len()].copy_from_slice(&data)
copy_from_slice(img, base, data) ==
    IF data = <<>> THEN img
    ELSE copy_from_slice(ImagePut(img, base, Head(data)), base + 1, Tail(data))

\* u16::from_le_bytes(image[a..a+2])
from_le_bytes(img, a) == ImageByte(img, a) + 256 * ImageByte(img, a + 1)

\* image[a..a+2].copy_from_slice(&next.to_le_bytes())
to_le_bytes(img, a, next) ==
    ImagePut(ImagePut(img, a, next % 256), a + 1, next \div 256)

\* u16::wrapping_add
wrapping_add(curr, x) == (curr + x) % 65536

\* `x as u16` of an i32 or a usize.
AsU16(x) == x % 65536

Ok(v) == [ok |-> TRUE, value |-> v]
Err == [ok |-> FALSE, value |-> 0]

\* pass2.rs 24-34.
TargetType_from_byte(b) ==
    CASE b = 0 -> Ok("SEGDEF")
      [] b = 1 -> Ok("GRPDEF")
      [] b = 2 -> Ok("EXTDEF")
      [] b = 3 -> Ok("Frame")
      [] OTHER -> [ok |-> FALSE, value |-> "None"]

\* pass2.rs 60-72.
FrameType_from_byte(b) ==
    CASE b = 0 -> Ok("SEGDEF")
      [] b = 1 -> Ok("GRPDEF")
      [] b = 2 -> Ok("EXTDEF")
      [] b = 3 -> Ok("ExplicitFrame")
      [] b = 4 -> Ok("SegOfPrevData")
      [] b = 5 -> Ok("FromTarget")
      [] OTHER -> [ok |-> FALSE, value |-> "None"]

\* pass2.rs 93-107: four target threads and four frame threads, none set.
ThreadState_new ==
    [target_threads |-> [i \in 0..3 |-> [target_type |-> "None", target_index |-> 0]],
     frame_threads |-> [i \in 0..3 |-> [frame_type |-> "None", frame_index |-> 0]]]

\* pass2.rs 118-128.
Locat_new(w) ==
    CASE w = 0 -> Ok("LowOrderByte")
      [] w \in {1, 5} -> Ok("Offset16")
      [] w = 2 -> Ok("Segment16")
      [] w = 3 -> Ok("FarPointer")
      [] OTHER -> [ok |-> FALSE, value |-> "None"]

\* pass2.rs 214.
LastDataRegion_new == [frame |-> 0, base |-> 0, length |-> 0]

\* pass2.rs 401-410.
fixup_segdef_base(state, obj, segidx) ==
    IF segidx = 0 \/ ~OmfVec_is_valid_index(obj.segdefs, segidx) THEN Err
    ELSE Ok(state.segments[obj.segdefs[segidx].segidx].base)

\* pass2.rs 414-423.
fixup_grpdef_base(state, obj, grpidx) ==
    IF grpidx = 0 \/ ~IndexMap_is_valid_index(obj.grpdefs, grpidx) THEN Err
    ELSE Ok(state.groups[IndexMap_get(obj.grpdefs, grpidx)].base)

\* pass2.rs 362, 369: Ok((linear >> 4) as u16), or the error of `linear`.
FrameOfBase(linear) ==
    IF ~linear.ok THEN Err ELSE Ok(AsU16(ShiftRight(linear.value, 4)))

\* pass2.rs 360-363.
fixup_segdef_frame(state, obj, segidx) ==
    FrameOfBase(fixup_segdef_base(state, obj, segidx))

\* pass2.rs 367-370.
fixup_grpdef_frame(state, obj, grpidx) ==
    FrameOfBase(fixup_grpdef_base(state, obj, grpidx))

\* pass2.rs 391-395: the indices of the Public are passed on as indices of
\* the object's own GRPDEFs and SEGDEFs.
ExtdefFrameOf(state, obj, public) ==
    IF public.segment = 0 THEN Ok(AsU16(public.frame))
    ELSE IF public.group # 0 THEN fixup_grpdef_frame(state, obj, public.group)
    ELSE fixup_segdef_frame(state, obj, public.segment)

\* pass2.rs 380-387: the symbol of an external must be a Public.
IsResolved(state, symname) ==
    symname \in DOMAIN state.symbols /\ IsPublic(state.symbols[symname])

\* pass2.rs 374-397.
fixup_extdef_frame(state, obj, extidx) ==
    IF extidx = 0 \/ ~OmfVec_is_valid_index(obj.extdefs, extidx) THEN Err
    ELSE IF ~IsResolved(state, obj.extdefs[extidx]) THEN Err
    ELSE ExtdefFrameOf(state, obj, state.symbols[obj.extdefs[extidx]])

\* pass2.rs 442-447.
ExtdefBaseOf(state, public) ==
    IF public.segment = 0 THEN Ok(public.offset)
    ELSE Ok(state.segments[public.segment].base + public.offset)

\* pass2.rs 427-449.
fixup_extdef_base(state, obj, extidx) ==
    IF extidx = 0 \/ ~OmfVec_is_valid_index(obj.extdefs, extidx) THEN Err
    ELSE IF ~IsResolved(state, obj.extdefs[extidx]) THEN Err
    ELSE ExtdefBaseOf(state, state.symbols[obj.extdefs[extidx]])

\* pass2.rs 461-470: the frame thread `thread` is set.
SetFrameThread(rec, thr, thread, frame_type) ==
    IF ~frame_type.ok THEN [ok |-> FALSE, value |-> thr]
    ELSE Ok([thr EXCEPT !.frame_threads[thread] =
               [frame_type |-> frame_type.value,
                frame_index |-> IF frame_type.value \in {"SEGDEF", "GRPDEF", "EXTDEF"}
                                THEN rec.index ELSE 0]])

\* pass2.rs 475-482: the target thread `thread` is set.
SetTargetThread(rec, thr, thread, target_type) ==
    IF ~target_type.ok \/ target_type.value = "Frame"
    THEN [ok |-> FALSE, value |-> thr]
    ELSE Ok([thr EXCEPT !.target_threads[thread] =
               [target_type |-> target_type.value, target_index |-> rec.index]])

\* pass2.rs 453-486: a thread subrecord [b0, index].  [ok, value: the
\* threads of the object].
pass2_fixupp_thread(rec, thr, b0) ==
    IF BitAnd(b0, 64) # 0
    THEN SetFrameThread(rec, thr, BitAnd(b0, 3),
                        FrameType_from_byte(BitAnd(ShiftRight(b0, 2), 7)))
    ELSE SetTargetThread(rec, thr, BitAnd(b0, 3),
                         TargetType_from_byte(BitAnd(ShiftRight(b0, 2), 3)))

\* pass2.rs 498-504: the frame of a frame thread.
FrameOfThread(thread) ==
    [ok |-> thread.frame_type # "None", frame_type |-> thread.frame_type,
     frame_index |-> thread.frame_index]

\* pass2.rs 506-516: the frame that the fixup data names itself.
FrameOfMethod(rec, frame_type) ==
    [ok |-> frame_type.ok, frame_type |-> frame_type.value,
     frame_index |-> IF frame_type.value \in
                         {"SEGDEF", "GRPDEF", "EXTDEF", "ExplicitFrame"}
                     THEN rec.frame_index ELSE 0]

\* pass2.rs 497-517: [ok, frame_type, frame_index].
FixupFrameData(rec, thr, fixdat) ==
    IF BitAnd(fixdat, 128) # 0
    THEN FrameOfThread(thr.frame_threads[BitAnd(ShiftRight(fixdat, 4), 3)])
    ELSE FrameOfMethod(rec, FrameType_from_byte(BitAnd(ShiftRight(fixdat, 4), 7)))

\* pass2.rs 523-529: the target of a target thread.
TargetOfThread(thread) ==
    [ok |-> thread.target_type # "None", target_type |-> thread.target_type,
     target_index |-> thread.target_index]

\* pass2.rs 531-538: the target that the fixup data names itself.
TargetOfMethod(rec, target_type) ==
    [ok |-> target_type.ok /\ target_type.value # "Frame",
     target_type |-> target_type.value, target_index |-> rec.target_index]

\* pass2.rs 522-539: [ok, target_type, target_index].
FixupTargetData(rec, thr, fixdat) ==
    IF BitAnd(fixdat, 8) # 0
    THEN TargetOfThread(thr.target_threads[BitAnd(fixdat, 3)])
    ELSE TargetOfMethod(rec, TargetType_from_byte(BitAnd(fixdat, 3)))

\* pass2.rs 546-558.
FixupFrame(state, obj, lastdat, f, t) ==
    CASE f.frame_type = "SEGDEF" -> fixup_segdef_frame(state, obj, f.frame_index)
      [] f.frame_type = "GRPDEF" -> fixup_grpdef_frame(state, obj, f.frame_index)
      [] f.frame_type = "EXTDEF" -> fixup_extdef_frame(state, obj, f.frame_index)
      [] f.frame_type = "ExplicitFrame" -> Ok(AsU16(f.frame_index))
      [] f.frame_type = "SegOfPrevData" -> Ok(AsU16(ShiftRight(lastdat.base, 4)))
      [] f.frame_type = "FromTarget" ->
            CASE t.target_type = "SEGDEF" -> fixup_segdef_frame(state, obj, t.target_index)
              [] t.target_type = "GRPDEF" -> fixup_grpdef_frame(state, obj, t.target_index)
              [] t.target_type = "EXTDEF" -> fixup_extdef_frame(state, obj, t.target_index)

\* pass2.rs 564-568.
SegdefTarget(obj, t, base) ==
    IF ~base.ok THEN Err ELSE Ok(base.value + obj.segdefs[t.target_index].base)

\* pass2.rs 563-572, without the displacement.
FixupTarget(state, obj, t) ==
    CASE t.target_type = "SEGDEF" ->
            SegdefTarget(obj, t, fixup_segdef_base(state, obj, t.target_index))
      [] t.target_type = "GRPDEF" -> fixup_grpdef_base(state, obj, t.target_index)
      [] t.target_type = "EXTDEF" -> fixup_extdef_base(state, obj, t.target_index)

\* pass2.rs 576: Ok((fbval, target)), or the Err of one of them.
FixupDataResult(f, t, fbval, target, target_disp) ==
    [ok |-> fbval.ok /\ target.ok,
     fbval |-> IF fbval.ok /\ target.ok THEN fbval.value ELSE 0,
     target |-> IF fbval.ok /\ target.ok THEN target.value + target_disp ELSE 0,
     frame_type |-> f.frame_type, frame_index |-> f.frame_index,
     target_type |-> t.target_type, target_index |-> t.target_index]

\* pass2.rs 541-577: the frame and the target of the decoded f and t.
FixupDataOf(rec, state, obj, lastdat, f, t) ==
    IF ~f.ok \/ ~t.ok
    THEN FixupDataResult(f, t, Err, Err, 0)
    ELSE FixupDataResult(f, t, FixupFrame(state, obj, lastdat, f, t),
                         FixupTarget(state, obj, t),
                         IF BitAnd(rec.fixdat, 4) = 0 THEN rec.target_disp ELSE 0)

\* pass2.rs 488-577: the fixup data [fixdat, frame_index, target_index,
\* target_disp] of a fixup subrecord or of a MODEND.  [ok, fbval, target,
\* frame_type, frame_index, target_type, target_index].
pass2_fixup_data(rec, state, obj, thr, lastdat) ==
    FixupDataOf(rec, state, obj, lastdat,
                FixupFrameData(rec, thr, rec.fixdat),
                FixupTargetData(rec, thr, rec.fixdat))

\* pass2.rs 605-670: the patch of a segment-relative fixup.  A location
\* that does not fit in the image is skipped with a warning.
\* [image, relocs].
SegmentRelativePatch(img, rel, loctype, imageptr, fbval, foval, lastdat) ==
    LET skip == [image |-> img, relocs |-> rel] IN
    CASE loctype = "Offset16" ->
            IF imageptr + 2 > img.len THEN skip
            ELSE [image |-> to_le_bytes(img, imageptr,
                               wrapping_add(from_le_bytes(img, imageptr), AsU16(foval))),
                  relocs |-> rel]
      [] loctype = "Segment16" ->
            IF imageptr + 2 > img.len THEN skip
            ELSE [image |-> to_le_bytes(img, imageptr,
                               wrapping_add(from_le_bytes(img, imageptr), fbval)),
                  relocs |-> Append(rel, Relocation(lastdat.frame,
                               AsU16(imageptr - lastdat.frame * 16)))]
      [] loctype = "FarPointer" ->
            IF imageptr + 4 > img.len THEN skip
            ELSE LET low == to_le_bytes(img, imageptr,
                               wrapping_add(from_le_bytes(img, imageptr), AsU16(foval)))
                 IN [image |-> to_le_bytes(low, imageptr + 2,
                                  wrapping_add(from_le_bytes(low, imageptr + 2), fbval)),
                     relocs |-> Append(rel, Relocation(lastdat.frame,
                                  AsU16(imageptr + 2 - lastdat.frame * 16)))]
      [] loctype = "LowOrderByte" ->
            IF imageptr >= img.len THEN skip
            ELSE [image |-> ImagePut(img, imageptr,
                               (ImageByte(img, imageptr) + fbval) % 256),
                  relocs |-> rel]

\* pass2.rs 591-701: the fixup whose location and data have been decoded.
ApplyFixup(img, rel, lastdat, is_segment_rel, loctype, imageptr, data, out) ==
    IF ~loctype.ok \/ ~data.ok THEN out
    ELSE IF is_segment_rel
    THEN [out EXCEPT
            !.status = "Ok",
            !.image = SegmentRelativePatch(img, rel, loctype.value, imageptr,
                         data.fbval, data.target - data.fbval * 16, lastdat).image,
            !.relocs = SegmentRelativePatch(img, rel, loctype.value, imageptr,
                         data.fbval, data.target - data.fbval * 16, lastdat).relocs]
    ELSE IF loctype.value # "Offset16" THEN out
    ELSE IF imageptr + 2 > img.len THEN [out EXCEPT !.status = "panic"]
    ELSE [out EXCEPT !.status = "Ok",
                     !.image = to_le_bytes(img, imageptr,
                                  wrapping_add(from_le_bytes(img, imageptr),
                                               AsU16(data.target - (imageptr + 2))))]

\* pass2.rs 585-591: LOCAT is decoded, then the fixup data.
DecodeFixup(img, rel, lastdat, is_segment_rel, loctype, imageptr, data) ==
    ApplyFixup(img, rel, lastdat, is_segment_rel, loctype, imageptr, data,
               [status |-> "Err", image |-> img, relocs |-> rel,
                is_segment_rel |-> is_segment_rel, loctype |-> loctype.value,
                imageptr |-> imageptr, data |-> data])

\* pass2.rs 581-702: a fixup subrecord [b0, b1, fixdat, frame_index,
\* target_index, target_disp].  [status, image, relocs] and what was
\* decoded: is_segment_rel, loctype, imageptr, data.  A self-relative
\* location that does not fit in the image indexes the slice out of range.
pass2_fixupp_fixup(rec, state, obj, thr, img, b0, lastdat, rel) ==
    DecodeFixup(img, rel, lastdat,
                BitAnd(b0 * 256 + rec.b1, 16384) # 0,
                Locat_new(BitAnd(ShiftRight(b0 * 256 + rec.b1, 10), 15)),
                lastdat.base + BitAnd(b0 * 256 + rec.b1, 1023),
                pass2_fixup_data(rec, state, obj, thr, lastdat))

RECURSIVE pass2_fixupp(_, _, _, _, _, _, _, _)
\* As AfterThread, but what the thread subrecord latched is dropped.
AfterThreadForgets(subs, state, obj, thr, img, lastdat, rel, log, r) ==
    IF ~r.ok
    THEN [status |-> "Err", image |-> img, relocs |-> rel, threads |-> thr, log |-> log]
    ELSE pass2_fixupp(Tail(subs), state, obj, thr, img, lastdat, rel, log)

\* pass2.rs 711: after a thread subrecord, r what pass2_fixupp_thread
\* returned.
AfterThread(subs, state, obj, thr, img, lastdat, rel, log, r) ==
    IF ~r.ok
    THEN [status |-> "Err", image |-> img, relocs |-> rel, threads |-> thr, log |-> log]
    ELSE pass2_fixupp(Tail(subs), state, obj, r.value, img, lastdat, rel, log)

\* pass2.rs 713: after a fixup subrecord, r what pass2_fixupp_fixup
\* returned, `done` the log with its entry.
AfterFixup(subs, state, obj, thr, lastdat, r, done) ==
    IF r.status # "Ok"
    THEN [status |-> r.status, image |-> r.image, relocs |-> r.relocs,
          threads |-> thr, log |-> done]
    ELSE pass2_fixupp(Tail(subs), state, obj, thr, r.image, lastdat, r.relocs, done)

\* The entry of the log for a fixup subrecord: what pass2_fixupp_fixup
\* returned, the image and the relocations as they were before it, the
\* subrecord, the threads of the object as it found them, and the number
\* of subrecords from it to the end of the record.
LogFixup(subs, state, obj, thr, img, lastdat, rel, log, r) ==
    AfterFixup(subs, state, obj, thr, lastdat, r,
               Append(log, [fixup |-> r, imageBefore |-> img, relocsBefore |-> rel,
                            lastdata |-> lastdat, sub |-> Head(subs),
                            threads |-> thr, rest |-> Len(subs)]))

\* pass2.rs 706-718: the subrecords in order, up to the first that fails.
\* [status, image, relocs, threads, log]; log has one entry for each fixup
\* subrecord processed.
pass2_fixupp(subs, state, obj, thr, img, lastdat, rel, log) ==
    IF subs = <<>>
    THEN [status |-> "Ok", image |-> img, relocs |-> rel, threads |-> thr, log |-> log]
    ELSE IF BitAnd(Head(subs).b0, 128) = 0
    THEN AfterThread(subs, state, obj, thr, img, lastdat, rel, log,
                     pass2_fixupp_thread(Head(subs), thr, Head(subs).b0))
    ELSE LogFixup(subs, state, obj, thr, img, lastdat, rel, log,
                  pass2_fixupp_fixup(Head(subs), state, obj, thr, img,
                                     Head(subs).b0, lastdat, rel))

\* pass2.rs 267-286.  [status, value]: segidx 0 is an error, a segidx
\* beyond the object's SEGDEFs indexes the OmfVec out of range.
base_of_obj_seg_offset(obj, segidx, offset, state, datalen) ==
    IF segidx = 0 /\ ~OmfVec_is_valid_index(obj.segdefs, segidx)
    THEN [status |-> "Err", value |-> 0]
    ELSE IF segidx > Len(obj.segdefs) THEN [status |-> "panic", value |-> 0]
    ELSE LET segdef == obj.segdefs[segidx] IN
         IF offset >= segdef.length \/ offset + datalen > segdef.length
         THEN [status |-> "Err", value |-> 0]
         ELSE [status |-> "Ok",
               value |-> segdef.base + state.segments[segdef.segidx].base + offset]

\* pass2.rs 295-302, 348-355: the data is placed at `base` and becomes
\* lastdata.  [status, image, lastdata].
PlaceData(data, img, lastdat, base, frame) ==
    IF base.status # "Ok"
    THEN [status |-> base.status, image |-> img, lastdata |-> lastdat]
    ELSE IF ~frame.ok THEN [status |-> "Err", image |-> img, lastdata |-> lastdat]
    ELSE [status |-> "Ok",
          image |-> copy_from_slice(img, base.value, data),
          lastdata |-> [frame |-> frame.value, base |-> base.value,
                        length |-> Len(data)]]

\* pass2.rs 290-303: an LEDATA record [segidx, offset, data].
pass2_ledata(rec, state, obj, img, lastdat) ==
    PlaceData(rec.data, img, lastdat,
              base_of_obj_seg_offset(obj, rec.segidx, rec.offset, state, Len(rec.data)),
              fixup_segdef_frame(state, obj, rec.segidx))

RECURSIVE Repeat(_, _)
\* pass2.rs 329-331.
Repeat(bytes, repeat_count) ==
    IF repeat_count = 0 THEN <<>> ELSE bytes \o Repeat(bytes, repeat_count - 1)

RECURSIVE accum_lidata(_)
RECURSIVE accum_blocks(_)
\* pass2.rs 307-334: the expansion of a block [repeat_count, blocks, bytes];
\* bytes is the content of a block that has no nested block.
accum_lidata(block) ==
    Repeat(IF block.blocks = <<>> THEN block.bytes ELSE accum_blocks(block.blocks),
           block.repeat_count)

\* pass2.rs 322-324, 344-346: the expansions of several blocks in a row.
accum_blocks(blocks) ==
    IF blocks = <<>> THEN <<>>
    ELSE accum_lidata(Head(blocks)) \o accum_blocks(Tail(blocks))

\* pass2.rs 342-355: the expanded data is placed.
PlaceExpanded(rec, state, obj, img, lastdat, data) ==
    PlaceData(data, img, lastdat,
              base_of_obj_seg_offset(obj, rec.segidx, rec.offset, state, Len(data)),
              fixup_segdef_frame(state, obj, rec.segidx))

\* pass2.rs 338-356: an LIDATA record [segidx, offset, blocks].
pass2_lidata(rec, state, obj, img, lastdat) ==
    PlaceExpanded(rec, state, obj, img, lastdat, accum_blocks(rec.blocks))

\* pass2.rs 735-743: the start address of the fixup data.
StartAddress(state, data, foval) ==
    IF ~data.ok \/ foval < 0 \/ foval > 65535
    THEN [ok |-> FALSE, value |-> state.entry]
    ELSE Ok(FarPtr_new(data.fbval, foval))

\* pass2.rs 736-737.
StartOf(state, data) == StartAddress(state, data, data.target - data.fbval * 16)

\* As pass2_modend, but an entry already stored is not looked at.
pass2_modend_overwrites(rec, state, obj, thr, lastdat) ==
    IF ~rec.present THEN Ok(state.entry)
    ELSE IF ~(BitAnd(rec.modtype, 128) # 0 /\ BitAnd(rec.modtype, 64) # 0)
    THEN Ok(state.entry)
    ELSE StartOf(state, pass2_fixup_data(rec, state, obj, thr, lastdat))

\* pass2.rs 722-749: a MODEND record [present, modtype, fixdat, ...].
\* [ok, value: the entry].
pass2_modend(rec, state, obj, thr, lastdat) ==
    IF ~rec.present THEN Ok(state.entry)
    ELSE IF ~(BitAnd(rec.modtype, 128) # 0 /\ BitAnd(rec.modtype, 64) # 0)
    THEN Ok(state.entry)
    ELSE IF state.entry # <<>> THEN [ok |-> FALSE, value |-> state.entry]
    ELSE StartOf(state, pass2_fixup_data(rec, state, obj, thr, lastdat))

(***************************************************************************)
(* dosexe.rs : DosExe::write.                                              *)
(***************************************************************************)

\* dosexe.rs 130-132.
FIXED_HEADER_SIZE == 30
PAGE_SIZE == 512
PARA_SIZE == 16

\* u16::to_le_bytes: byte k (0 or 1) of v.
le_byte(v, k) == IF k = 0 THEN v % 256 ELSE (v \div 256) % 256

\* dosexe.rs 141-144.
header_size(e) == FIXED_HEADER_SIZE + Len(e.relocs) * 4
header_pages(e) == (header_size(e) + PAGE_SIZE - 1) \div PAGE_SIZE
image_pages(e) == (e.len + PAGE_SIZE - 1) \div PAGE_SIZE
total_pages(e) == header_pages(e) + image_pages(e)

\* dosexe.rs 159, 164.
extra_bytes(e) == AsU16(e.len % PAGE_SIZE)
header_para(e) == AsU16((header_pages(e) * PAGE_SIZE) \div PARA_SIZE)

\* dosexe.rs 157-183: the word the fixed header holds at the even offset
\* off; the checksum at 0x12 is left zero.
HeaderWord(e, off) ==
    CASE off = 0 -> 77 + 90 * 256
      [] off = 2 -> extra_bytes(e)
      [] off = 4 -> AsU16(total_pages(e))
      [] off = 6 -> AsU16(Len(e.relocs))
      [] off = 8 -> header_para(e)
      [] off = 10 -> e.min_alloc
      [] off = 12 -> e.max_alloc
      [] off = 14 -> e.init_stack.seg
      [] off = 16 -> e.init_stack.offset
      [] off = 20 -> e.entry_point.offset
      [] off = 22 -> e.entry_point.seg
      [] off = 24 -> AsU16(FIXED_HEADER_SIZE)
      [] off = 28 -> 1
      [] OTHER -> 0

\* dosexe.rs 188-193: the word of the relocation table at the even offset
\* off, FIXED_HEADER_SIZE or more.
RelocWord(e, off) ==
    IF (off - FIXED_HEADER_SIZE) % 4 = 0
    THEN e.relocs[(off - FIXED_HEADER_SIZE) \div 4 + 1].offset
    ELSE e.relocs[(off - FIXED_HEADER_SIZE) \div 4 + 1].seg

\* dosexe.rs 151-193: the byte of the header vector at off.
HeaderByte(e, off) ==
    le_byte(IF off < FIXED_HEADER_SIZE THEN HeaderWord(e, off - (off % 2))
            ELSE RelocWord(e, off - (off % 2)),
            off % 2)

\* dosexe.rs 113-203.  [result, header, data_len]: the file holds the
\* header vector, of header_size bytes, and then the data_len bytes of the
\* image.  The file system is taken not to fail.
DosExe_write(e) ==
    IF Len(e.relocs) > 65535 \/ image_pages(e) > 65535
    THEN [result |-> "Err", header |-> <<>>, data_len |-> 0]
    ELSE [result |-> "Ok",
          header |-> [i \in 1..header_size(e) |-> HeaderByte(e, i - 1)],
          data_len |-> e.len]

(***************************************************************************)
(* The writer specification: write is called on a DosExe over an image of  *)
(* some length with some relocations, entry point and stack.               *)
(***************************************************************************)

WriteImageLengths == {0, 1, 511, 512, 513, 1024, 4097, 33553921}
RelocCounts == {0, 1, 2, 3, 120, 121, 122, 250}
WriteEntries == {FarPtr_null, FarPtr_new(1, 258)}

\* n relocations, every one different from its neighbours.
WriteRelocs(n) == [i \in 1..n |-> Relocation((i % 3) + 256, (4 * i + 513) % 65536)]

WriteInit ==
    /\ exe \in {[DosExe_new(len) EXCEPT !.relocs = WriteRelocs(n), !.entry_point = ep,
                                        !.init_stack = FarPtr_new(2, 1024),
                                        !.min_alloc = 3] :
                   len \in WriteImageLengths, n \in RelocCounts, ep \in WriteEntries}
    /\ entryCall = <<>>
    /\ file = <<>>
    /\ symbols = EmptyMap /\ updates = <<>> /\ symbolsBefore = EmptyMap
    /\ seg = NoSegment /\ segBefore = NoSegment /\ segCall = NoSegCall /\ segCount = 0
    /\ LinkState_new
    /\ NoLibraries
    /\ NoLookup
    /\ NoPass2
    /\ NoRecord

\* dosexe.rs 113-203.
Write ==
    /\ file' = DosExe_write(exe)
    /\ UNCHANGED <<exe, entryCall, symVars, segVars, linkVars, libVars, dictVars,
                   p2Vars, recVars>>

WriteNext == Write

SpecWrite == WriteInit /\ [][WriteNext]_vars

(***************************************************************************)
(* The Pass 2 specification.  Pass 1 has read the definition records of    *)
(* the objects and built the memory map; pass 2 reads the LEDATA, LIDATA,  *)
(* FIXUPP and MODEND records of each object in turn, then writes the       *)
(* executable.                                                             *)
(***************************************************************************)

RECURSIVE Pass1Objects(_, _, _)
\* pass1.rs 62-73: pass1_object on a new Object for every input file.
\* [st, objects].
Pass1Objects(st, objs, datas) ==
    IF datas = <<>> \/ ~st.ok THEN [st |-> st, objects |-> objs]
    ELSE LET r == pass1_object([st EXCEPT !.obj = Object_new], Head(datas)) IN
         Pass1Objects(r, Append(objs, r.obj), Tail(datas))

\* pass1.rs 185-243 on the state st that the objects left: the segments
\* are placed in `order`, the groups based.
MemoryMap(st, objs, order, placed) ==
    [ok |-> st.ok,
     symbols |-> st.symbols,
     lnames |-> st.lnames,
     segments |-> placed,
     groups |-> [i \in 1..Len(st.groups) |-> GroupWithBase(placed, st.groups[i])],
     segment_order |-> order,
     objects |-> objs]

\* pass1.rs 219-229.
PlaceSegments(st, objs, order) ==
    MemoryMap(st, objs, order, AssignBases(st.segments, order, 1, 0))

\* pass1.rs 185-217.
OrderSegments(r) ==
    PlaceSegments(r.st, r.objects, ComputeOrder(r.st.segments, 1, <<>>, {}))

\* pass1.rs 56-78: the LinkState and the objects that pass1 leaves for the
\* object files `datas`.
pass1(datas) ==
    OrderSegments(Pass1Objects([ok |-> TRUE, symbols |-> EmptyMap, lnames |-> <<>>,
                                segments |-> <<>>, groups |-> <<>>,
                                obj |-> Object_new], <<>>, datas))

LnamesRec(names) == [type |-> "LNAMES", names |-> names]
SegdefRecord(acbp, length, nameidx, classidx, ovlyidx) ==
    [type |-> "SEGDEF", segdef |-> SegdefRec(acbp, length, nameidx, classidx, ovlyidx)]
GrpdefRecord(nameidx, members) ==
    [type |-> "GRPDEF", grpdef |-> GrpdefRec(nameidx, members)]

\* The first object: segments A (Para, 32 bytes) and B (Byte, 8 bytes),
\* group G of B; "F" in B, "f" in B through G, "b" absolute.
FirstObject(names) ==
    <<LnamesRec(names),
      SegdefRecord(104, 32, 1, 0, 0),
      SegdefRecord(40, 8, 2, 0, 0),
      GrpdefRecord(3, <<2>>),
      PubdefRec(0, 2, 0, <<[name |-> NameUpperF, offset |-> 2]>>),
      PubdefRec(1, 2, 0, <<[name |-> NameLowerF, offset |-> 4]>>),
      AbsolutePubdef(NameLowerB)>>

\* The second object numbers the segments the other way round: its first
\* SEGDEF is B (4 bytes), its second is A (16 bytes); it refers to "F",
\* "b" and "f".
SecondObject ==
    <<LnamesRec(<<"B", "A">>),
      SegdefRecord(40, 4, 1, 0, 0),
      SegdefRecord(104, 16, 2, 0, 0),
      ExtdefRec(<<NameUpperF, NameLowerB, NameLowerF>>)>>

\* An object with a stack segment _STACK of class STACK, 16 bytes.
StackObject ==
    <<LnamesRec(<<"_STACK", "STACK", "">>),
      SegdefRecord(116, 16, 1, 2, 3)>>

\* An object with a segment of 64k bytes, Byte aligned, after one of 3
\* bytes.
BigObject ==
    <<LnamesRec(<<"A", "B">>),
      SegdefRecord(104, 3, 1, 0, 0),
      SegdefRecord(41, 0, 2, 0, 0)>>

\* The programs linked.
Programs ==
    { <<FirstObject(<<"A", "B", "G">>), SecondObject>>,
      <<FirstObject(<<"A", "B", "G">>), SecondObject, StackObject>>,
      <<BigObject>> }

\* The LinkState that pass 2 is given.
State ==
    [symbols |-> symbols, lnames |-> lnames, segments |-> segments,
     groups |-> groups, segment_order |-> segment_order, entry |-> entry]

\* The tables of the LinkState that pass 1 built.
Tables(state) ==
    [symbols |-> state.symbols, lnames |-> state.lnames,
     segments |-> state.segments, groups |-> state.groups,
     segment_order |-> state.segment_order]

\* A fixup subrecord: M, the location type, the data offset, then the
\* fixup data.
FixupSub(m, loc, off, fixdat, frame_index, target_index, target_disp) ==
    [b0 |-> 128 + 64 * m + 4 * loc + off \div 256, b1 |-> off % 256,
     fixdat |-> fixdat, frame_index |-> frame_index,
     target_index |-> target_index, target_disp |-> target_disp]

\* A thread subrecord: frame thread or target thread, the method, the
\* slot, the index.
ThreadSub(isframe, method, slot, index) ==
    [b0 |-> 64 * isframe + 4 * method + slot, index |-> index]

\* The fixup data used: [fixdat, frame_index, target_index, target_disp].
\*   0   frame SEGDEF 1, target SEGDEF 1, displacement 4
\*   38  frame EXTDEF, target EXTDEF (the same external), no displacement
\*   85  frame FromTarget, target GRPDEF 1
\*   86  frame FromTarget, target EXTDEF 1
\*   68  frame SegOfPrevData, target SEGDEF 2
\*   52  frame ExplicitFrame 3, target SEGDEF 2
\*   140 frame thread 0, target thread 0
\*   100 frame type 6
\*   7   target type Frame
FixupDatas ==
    { <<0, 1, 1, 4>>, <<38, 1, 1, 0>>, <<38, 2, 2, 0>>, <<38, 3, 3, 0>>,
      <<85, 0, 1, 0>>, <<86, 0, 1, 0>>, <<68, 0, 2, 0>>, <<52, 3, 2, 0>>, <<140, 0, 0, 0>>,
      <<100, 0, 1, 0>>, <<7, 1, 1, 0>> }

\* The fixup subrecords read: every location type, segment-relative and
\* self-relative, at offsets inside and beyond the data just placed.
FixupSubs ==
    { FixupSub(1, loc, 0, d[1], d[2], d[3], d[4]) :
          loc \in {0, 1, 2, 3}, d \in FixupDatas }
    \cup { FixupSub(m, loc, off, 38, 1, 1, 0) :
          m \in {0, 1}, loc \in {0, 1, 2, 3, 4}, off \in {0, 6, 1000} }

ThreadSubs ==
    { ThreadSub(1, 2, 0, 1), ThreadSub(0, 0, 0, 1), ThreadSub(1, 6, 0, 0),
      ThreadSub(0, 3, 0, 1) }

\* The FIXUPP records read: one subrecord, or two.
FixuppRecords ==
    { <<s>> : s \in FixupSubs \cup ThreadSubs }
    \cup { <<ThreadSub(1, 2, 0, 1), ThreadSub(0, 0, 0, 1),
             FixupSub(1, 3, 0, 140, 0, 0, 0)>>,
           <<FixupSub(1, 2, 0, 38, 1, 1, 0), FixupSub(1, 3, 2, 0, 1, 1, 4)>>,
           <<FixupSub(1, 2, 0, 38, 1, 1, 0), FixupSub(1, 4, 0, 0, 1, 1, 4)>>,
           <<ThreadSub(1, 0, 0, 1), ThreadSub(0, 0, 0, 2),
             FixupSub(1, 1, 0, 140, 0, 0, 0)>> }

LedataRecords ==
    { [segidx |-> 1, offset |-> 0, data |-> <<232, 0, 0, 0>>],
      [segidx |-> 1, offset |-> 6, data |-> <<1, 2>>],
      [segidx |-> 2, offset |-> 2, data |-> <<0, 0>>],
      [segidx |-> 0, offset |-> 0, data |-> <<1>>],
      [segidx |-> 3, offset |-> 0, data |-> <<1>>],
      [segidx |-> 2, offset |-> 3, data |-> <<1, 2>>],
      [segidx |-> 1, offset |-> 16, data |-> <<0, 0, 5, 0>>],
      [segidx |-> 2, offset |-> 65534, data |-> <<0, 0>>] }

LidataRecords ==
    { [segidx |-> 1, offset |-> 2,
       blocks |-> <<[repeat_count |-> 3, blocks |-> <<>>, bytes |-> <<144>>]>>],
      [segidx |-> 2, offset |-> 0,
       blocks |-> <<[repeat_count |-> 2, bytes |-> <<>>,
                     blocks |-> <<[repeat_count |-> 1, blocks |-> <<>>, bytes |-> <<7>>],
                                  [repeat_count |-> 0, blocks |-> <<>>, bytes |-> <<9>>]>>]>>] }

\* The MODEND records read: empty, not a main module, a start address
\* (frame SEGDEF 1, target SEGDEF 1 with displacement 4), and one whose
\* target lies below its frame.
ModendRecords ==
    { [present |-> FALSE, modtype |-> 0, fixdat |-> 0, frame_index |-> 0,
       target_index |-> 0, target_disp |-> 0],
      [present |-> TRUE, modtype |-> 128, fixdat |-> 0, frame_index |-> 1,
       target_index |-> 1, target_disp |-> 4],
      [present |-> TRUE, modtype |-> 192, fixdat |-> 0, frame_index |-> 1,
       target_index |-> 1, target_disp |-> 4],
      [present |-> TRUE, modtype |-> 192, fixdat |-> 52, frame_index |-> 3,
       target_index |-> 1, target_disp |-> 0] }

Pass2Init ==
    /\ \E r \in {pass1(p) : p \in Programs} :
         /\ symbols = r.symbols
         /\ lnames = r.lnames
         /\ segments = r.segments
         /\ groups = r.groups
         /\ segment_order = r.segment_order
         /\ objects = r.objects
    /\ phase = "pass2"
    /\ entry = <<>>
    /\ image = Image_new(segments[Last(segment_order)].base
                         + segments[Last(segment_order)].length)
    /\ highwater = 0
    /\ relocs = <<>>
    /\ threads = [i \in 1..Len(objects) |-> ThreadState_new]
    /\ cur = 1
    /\ lastdata = LastDataRegion_new
    /\ modend = FALSE
    /\ p2count = 0
    /\ p2log = [start |-> Tables(State), type |-> "none", imageBefore |-> image,
                record |-> <<>>, fixups |-> <<>>]
    /\ regions = {}
    /\ updates = <<>> /\ symbolsBefore = EmptyMap
    /\ seg = NoSegment /\ segBefore = NoSegment /\ segCall = NoSegCall /\ segCount = 0
    /\ NoLibraries
    /\ NoLookup
    /\ NoExe
    /\ NoRecord

\* pass2.rs 247-258: the end of one turn of the loop of pass2_object.
\* An Err ends pass 2, so does a panic.
RecordDone(status, type, rec, fixups) ==
    /\ phase' = CASE status = "Ok" -> "pass2"
                  [] status = "Err" -> "failed"
                  [] OTHER -> "panicked"
    /\ highwater' = IF status = "Ok"
                    THEN Max(highwater, lastdata'.base + lastdata'.length)
                    ELSE highwater
    /\ p2count' = p2count + 1
    /\ p2log' = [p2log EXCEPT !.type = type, !.imageBefore = image,
                              !.record = rec, !.fixups = fixups]
    /\ UNCHANGED <<lnames, segments, groups, segment_order, objects, cur,
                   symVars, segVars, libVars, dictVars, exeVars, recVars>>

CanRead ==
    /\ phase = "pass2"
    /\ ~modend
    /\ p2count < MaxP2Records

\* pass2.rs 236, 290-303.
Ledata(rec) ==
    /\ CanRead
    /\ \E r \in {pass2_ledata(rec, State, objects[cur], image, lastdata)} :
         /\ image' = r.image
         /\ lastdata' = r.lastdata
         /\ regions' = IF r.status = "Ok"
                       THEN regions \cup {[base |-> r.lastdata.base,
                                           length |-> r.lastdata.length]}
                       ELSE regions
         /\ RecordDone(r.status, "LEDATA", rec, <<>>)
    /\ UNCHANGED <<entry, relocs, threads, modend>>

\* pass2.rs 237, 338-356.
Lidata(rec) ==
    /\ CanRead
    /\ \E r \in {pass2_lidata(rec, State, objects[cur], image, lastdata)} :
         /\ image' = r.image
         /\ lastdata' = r.lastdata
         /\ regions' = IF r.status = "Ok"
                       THEN regions \cup {[base |-> r.lastdata.base,
                                           length |-> r.lastdata.length]}
                       ELSE regions
         /\ RecordDone(r.status, "LIDATA", rec, <<>>)
    /\ UNCHANGED <<entry, relocs, threads, modend>>

\* pass2.rs 238, 706-718.
Fixupp(rec) ==
    /\ CanRead
    /\ \E r \in {pass2_fixupp(rec, State, objects[cur], threads[cur], image,
                              lastdata, relocs, <<>>)} :
         /\ image' = r.image
         /\ relocs' = r.relocs
         /\ threads' = [threads EXCEPT ![cur] = r.threads]
         /\ lastdata' = lastdata
         /\ RecordDone(r.status, "FIXUPP", rec, r.log)
    /\ UNCHANGED <<entry, modend, regions>>

\* pass2.rs 239-242, 722-749.
Modend(rec) ==
    /\ CanRead
    /\ \E r \in {pass2_modend(rec, State, objects[cur], threads[cur], lastdata)} :
         /\ entry' = r.value
         /\ modend' = TRUE
         /\ lastdata' = lastdata
         /\ RecordDone(IF r.ok THEN "Ok" ELSE "Err", "MODEND", rec, <<>>)
    /\ UNCHANGED <<image, relocs, threads, regions>>

\* pass2.rs 156-160, 213-217: the object has been read to its end or to
\* its MODEND; the next one starts with no data placed.
NextObject ==
    /\ phase = "pass2"
    /\ cur < Len(objects)
    /\ cur' = cur + 1
    /\ lastdata' = LastDataRegion_new
    /\ modend' = FALSE
    /\ UNCHANGED <<entry, image, highwater, relocs, threads, p2count, p2log,
                   regions, linkVars, symVars, segVars, libVars, dictVars, exeVars,
                   recVars>>

\* dosexe.rs 85-92.
set_stack(e, s, offset) == [e EXCEPT !.init_stack = FarPtr_new(s, offset)]

\* pass2.rs 180-184: the three names of the stack segment are looked up
\* with find_or_add.  [names, name].
StackSegName(names) ==
    LET nameidx == LNames_find_or_add(names, "_STACK")
        classidx == LNames_find_or_add(nameidx.names, "STACK")
        ovlyidx == LNames_find_or_add(classidx.names, "") IN
    [names |-> ovlyidx.names,
     name |-> SegName_new(nameidx.index, classidx.index, ovlyidx.index)]

\* pass2.rs 186-197: the stack of the segment `found`, if there is one.
StackOf(e, found) ==
    IF found = 0 THEN e
    ELSE set_stack(e, AsU16(ShiftRight(segments[found].base, 4)),
                   AsU16(IF segments[found].length + BitAnd(segments[found].base, 15) > 65534
                         THEN 65534
                         ELSE segments[found].length + BitAnd(segments[found].base, 15)))

\* pass2.rs 166-197: the DosExe over the image up to highwater, with the
\* relocations and the stack.
BuildExe(stack) ==
    StackOf([DosExe_new(highwater) EXCEPT
                !.min_alloc = AsU16((image.len - highwater + 15) \div 16),
                !.relocs = relocs],
            get_segment_named(segments, stack.name))

\* pass2.rs 162-207: after the last object the executable is built and
\* written.
Finish ==
    /\ phase = "pass2"
    /\ cur = Len(objects)
    /\ \E stack \in {StackSegName(lnames)} :
         /\ lnames' = stack.names
         /\ IF entry = <<>>
            THEN /\ exe' = BuildExe(stack)
                 /\ file' = DosExe_write(exe')
                 /\ phase' = "written"
            ELSE \E r \in set_entry_point(BuildExe(stack), entry.seg, entry.offset) :
                    /\ exe' = IF r.result = "Ok" THEN r.exe ELSE exe
                    /\ file' = IF r.result = "Ok" THEN DosExe_write(r.exe) ELSE file
                    /\ phase' = CASE r.result = "Ok" -> "written"
                                  [] r.result = "Err" -> "failed"
                                  [] OTHER -> "panicked"
    /\ p2log' = [p2log EXCEPT !.type = "finish", !.imageBefore = image,
                              !.record = <<>>, !.fixups = <<>>]
    /\ UNCHANGED <<segments, groups, segment_order, objects, entryCall,
                   entry, image, highwater, relocs, threads, cur, lastdata,
                   modend, p2count, regions, symVars, segVars, libVars, dictVars,
                   recVars>>

Pass2Next ==
    \/ \E rec \in LedataRecords : Ledata(rec)
    \/ \E rec \in LidataRecords : Lidata(rec)
    \/ \E rec \in FixuppRecords : Fixupp(rec)
    \/ \E rec \in ModendRecords : Modend(rec)
    \/ NextObject
    \/ Finish

SpecPass2 == Pass2Init /\ [][Pass2Next]_vars

(***************************************************************************)
(* record.rs : the framing of an OMF record and its accessors.  A Record   *)
(* is [data, rectype, next]; an accessor returns [ok, value, rec].         *)
(***************************************************************************)

\* record.rs 10-29: the known record types.
RecordTypes == {128, 136, 138, 140, 144, 150, 152, 154, 156, 160, 162, 176,
                180, 182, 184, 240, 241, 242}

\* record.rs 74-99: [ok, value].  The payload is data[3..3+len-1], without
\* the checksum byte.
Record_new(data) ==
    IF Len(data) < 4 THEN Err
    ELSE IF data[1] \notin RecordTypes THEN Err
    ELSE IF 3 + (data[2] + 256 * data[3]) > Len(data) THEN Err
    ELSE IF data[2] + 256 * data[3] = 0 THEN Err
    ELSE Ok([data |-> SubSeq(data, 4, 3 + (data[2] + 256 * data[3]) - 1),
             rectype |-> data[1], next |-> 0])

\* An accessor failed: the Record is left as r.
Failed(r) == [ok |-> FALSE, value |-> 0, rec |-> r]

\* As Record_get, without the test for the end of the record.
Record_get_unchecked(r, expected) ==
    [ok |-> TRUE, value |-> [i \in 1..expected |-> 0],
     rec |-> [r EXCEPT !.next = @ + expected]]

\* record.rs 104-112.
Record_get(r, expected) ==
    IF r.next + expected > Len(r.data) THEN Failed(r)
    ELSE [ok |-> TRUE, value |-> SubSeq(r.data, r.next + 1, r.next + expected),
          rec |-> [r EXCEPT !.next = @ + expected]]

\* record.rs 116-123.
Record_byte(r) ==
    IF r.next = Len(r.data) THEN Failed(r)
    ELSE [ok |-> TRUE, value |-> r.data[r.next + 1], rec |-> [r EXCEPT !.next = @ + 1]]

\* u16::from_le_bytes, u32::from_le_bytes of what get returned.
LittleEndian(got) ==
    IF ~got.ok THEN got
    ELSE [got EXCEPT !.value =
            got.value[1]
            + (IF Len(got.value) > 1 THEN 256 * got.value[2] ELSE 0)
            + (IF Len(got.value) > 2 THEN 65536 * got.value[3] ELSE 0)
            + (IF Len(got.value) > 3 THEN 16777216 * got.value[4] ELSE 0)]

\* record.rs 127-130.
Record_word(r) == LittleEndian(Record_get(r, 2))

\* record.rs 134-137.
Record_dword(r) == LittleEndian(Record_get(r, 4))

\* record.rs 147-148: the second byte of a two-byte index.
IndexLow(byte0, second) ==
    IF ~second.ok THEN second
    ELSE [second EXCEPT !.value = BitAnd(byte0, 127) * 256 + second.value]

\* record.rs 142-149.
IndexOf(first) ==
    IF ~first.ok \/ first.value < 128 THEN first
    ELSE IndexLow(first.value, Record_byte(first.rec))

\* record.rs 141-150.
Record_index(r) == IndexOf(Record_byte(r))

\* record.rs 155-175.
ComdefLengthOf(first) ==
    IF ~first.ok \/ first.value <= 128 THEN first
    ELSE CASE first.value = 129 -> LittleEndian(Record_get(first.rec, 2))
           [] first.value = 132 -> LittleEndian(Record_get(first.rec, 3))
           [] first.value = 136 -> LittleEndian(Record_get(first.rec, 4))
           [] OTHER -> Failed(first.rec)

\* record.rs 154-176.
Record_comdef_length(r) == ComdefLengthOf(Record_byte(r))

\* record.rs 186-189: std::str::from_utf8 of bytes none of which is 0xC0 or
\* more: the text is valid exactly when it is ASCII.
from_utf8(got) ==
    IF ~got.ok THEN got
    ELSE IF \E i \in 1..Len(got.value) : got.value[i] >= 128 THEN Failed(got.rec)
    ELSE got

\* record.rs 182-184.
CountedStringOf(count) ==
    IF ~count.ok THEN count ELSE from_utf8(Record_get(count.rec, count.value))

\* record.rs 181-190.
Record_counted_string(r) == CountedStringOf(Record_byte(r))

\* record.rs 194-196.
Record_end(r) == r.next = Len(r.data)

\* record.rs 201-203.
Record_total_length(r) == Len(r.data) + 4

(***************************************************************************)
(* The record specification: a validly framed record, then any sequence    *)
(* of accessor calls.                                                      *)
(***************************************************************************)

\* The payloads of the records read; no byte is 0xC0 or more, and the
\* fourth byte of four in a row is below 0x80.
Payloads ==
    { <<>>, <<5>>, <<128>>, <<129, 2>>, <<3, 65, 66>>, <<132, 1, 2, 3, 2, 65, 66>>,
      <<136, 1, 2, 3>>, <<136, 1, 2, 3, 4>>, <<1, 129, 7, 0>>,
      <<1, 2, 3, 4, 5, 6>>, <<130, 1>> }

\* A COMENT record of the payload: type, length, payload, checksum.
Framed(payload) == <<136, Len(payload) + 1, 0>> \o payload \o <<0>>

\* The slices given to Record::new: a record alone, or followed by the
\* start of the next one.
RawRecords ==
    {Framed(p) : p \in Payloads} \cup {Framed(<<7, 8>>) \o <<128, 2>>}

RecordInit ==
    /\ raw \in RawRecords
    /\ record = Record_new(raw).value
    /\ recCall = <<>>
    /\ symbols = EmptyMap /\ updates = <<>> /\ symbolsBefore = EmptyMap
    /\ seg = NoSegment /\ segBefore = NoSegment /\ segCall = NoSegCall /\ segCount = 0
    /\ LinkState_new
    /\ NoLibraries
    /\ NoLookup
    /\ NoExe
    /\ NoPass2

\* One accessor call, r what it returned.
Called(op, r) ==
    /\ record' = r.rec
    /\ recCall' = [op |-> op, ok |-> r.ok, value |-> r.value, before |-> record]
    /\ UNCHANGED <<raw, symVars, segVars, linkVars, libVars, dictVars, exeVars, p2Vars>>

ReadByte == \E r \in {Record_byte(record)} : Called("byte", r)
ReadWord == \E r \in {Record_word(record)} : Called("word", r)
ReadDword == \E r \in {Record_dword(record)} : Called("dword", r)
ReadIndex == \E r \in {Record_index(record)} : Called("index", r)
ReadComdefLength == \E r \in {Record_comdef_length(record)} : Called("comdef_length", r)
ReadCountedString == \E r \in {Record_counted_string(record)} : Called("counted_string", r)

RecordNext ==
    \/ ReadByte
    \/ ReadWord
    \/ ReadDword
    \/ ReadIndex
    \/ ReadComdefLength
    \/ ReadCountedString

SpecRecord == RecordInit /\ [][RecordNext]_vars



(***************************************************************************)
(* Claims about SymbolTable::update, checked under SpecSym.                *)
(***************************************************************************)

\* The update calls made so far on one name, in order.
CallsOn(n) == SelectSeq(updates, LAMBDA c : c.name = n)

\* TRUE when every call of cs before the last one is an Undefined update.
AllButLastUndefined(cs) ==
    \A i \in 1..(Len(cs) - 1) : IsUndefined(cs[i].symbol)

\* C1: an Undefined update of a name, then any number of further Undefined
\* updates, then a Public update: the Public update succeeds and the entry
\* is that Public with its group/segment/frame/offset and used = TRUE; a
\* Public inserted for a name never seen before has used = FALSE.
C1_UndefinedToPublic ==
    \A n \in Names :
        LET cs == CallsOn(n) IN
        (Len(cs) >= 1 /\ IsPublic(Last(cs).symbol) /\ AllButLastUndefined(cs)) =>
            /\ Last(cs).ok
            /\ n \in DOMAIN symbols
            /\ symbols[n] = [Last(cs).symbol EXCEPT !.used = (Len(cs) >= 2)]

\* C1 witness: Undefined, Undefined, then Public on one name.
C1_Witness ==
    \E n \in Names :
        LET cs == CallsOn(n) IN
        /\ Len(cs) = 3
        /\ IsUndefined(cs[1].symbol) /\ IsUndefined(cs[2].symbol)
        /\ IsPublic(cs[3].symbol)
        /\ symbols[n].used

\* The cases in which C2 says update must fail.
RedefinitionCase(c) ==
    /\ c.name \in DOMAIN symbolsBefore
    /\ \/ IsPublic(symbolsBefore[c.name]) /\ (IsPublic(c.symbol) \/ IsCommon(c.symbol))
       \/ IsCommon(symbolsBefore[c.name]) /\ IsPublic(c.symbol)

\* C2: a Public or Common update of a Public entry, and a Public update of
\* a Common entry, return an error and leave the table exactly as it was.
C2_RedefinitionRejected ==
    updates # <<>> =>
        (RedefinitionCase(Last(updates)) =>
            ~Last(updates).ok /\ symbols = symbolsBefore)

\* C2 witness: a Common update of a Public entry has just been rejected.
C2_Witness ==
    /\ updates # <<>>
    /\ RedefinitionCase(Last(updates))
    /\ IsCommon(Last(updates).symbol)
    /\ ~Last(updates).ok

\* The address of a Public entry.
PublicAddress(sym) == <<sym.group, sym.segment, sym.frame, sym.offset>>

\* C3: an Undefined update of an existing Public or Common entry succeeds
\* and changes nothing but used := TRUE on a Public; and over any update at
\* all an entry that is Public stays Public with the same address.
C3_ExtdefNeverUndefines ==
    /\ updates # <<>> =>
         LET c == Last(updates) IN
         (IsUndefined(c.symbol) /\ c.name \in DOMAIN symbolsBefore
            /\ ~IsUndefined(symbolsBefore[c.name])) =>
              /\ c.ok
              /\ DOMAIN symbols = DOMAIN symbolsBefore
              /\ \A n \in DOMAIN symbols :
                    symbols[n] =
                       IF n = c.name /\ IsPublic(symbolsBefore[n])
                       THEN [symbolsBefore[n] EXCEPT !.used = TRUE]
                       ELSE symbolsBefore[n]
    /\ \A n \in DOMAIN symbolsBefore :
         IsPublic(symbolsBefore[n]) =>
            /\ n \in DOMAIN symbols
            /\ IsPublic(symbols[n])
            /\ PublicAddress(symbols[n]) = PublicAddress(symbolsBefore[n])

\* C3 witness: an Undefined update has just hit an unused Public entry.
C3_Witness ==
    /\ updates # <<>>
    /\ IsUndefined(Last(updates).symbol)
    /\ Last(updates).name \in DOMAIN symbolsBefore
    /\ IsPublic(symbolsBefore[Last(updates).name])
    /\ ~symbolsBefore[Last(updates).name].used
    /\ symbols[Last(updates).name].used

\* The sizes of the successful Common updates made so far on one name.
CommonSizes(n) ==
    {CallsOn(n)[i].symbol.size :
        i \in {j \in 1..Len(CallsOn(n)) :
                  IsCommon(CallsOn(n)[j].symbol) /\ CallsOn(n)[j].ok}}

SetMax(S) == CHOOSE m \in S : \A x \in S : x <= m

\* C4: the stored size of a Common entry is the maximum of the sizes of all
\* successful Common updates of its name, it never decreases, and a Common
\* update whose isFar differs from the stored one fails and changes nothing.
C4_CommonGrows ==
    /\ \A n \in DOMAIN symbols :
         IsCommon(symbols[n]) =>
            /\ CommonSizes(n) # {}
            /\ symbols[n].size = SetMax(CommonSizes(n))
            /\ (n \in DOMAIN symbolsBefore /\ IsCommon(symbolsBefore[n])) =>
                  /\ symbols[n].size >= symbolsBefore[n].size
                  /\ symbols[n].isfar = symbolsBefore[n].isfar
    /\ updates # <<>> =>
         LET c == Last(updates) IN
         (IsCommon(c.symbol) /\ c.name \in DOMAIN symbolsBefore
            /\ IsCommon(symbolsBefore[c.name])
            /\ symbolsBefore[c.name].isfar # c.symbol.isfar) =>
              ~c.ok /\ symbols = symbolsBefore

\* C4 witness: a Common of size 200, then one of size 100, both accepted.
C4_Witness ==
    \E n \in Names :
        LET cs == CallsOn(n) IN
        /\ Len(cs) >= 2
        /\ IsCommon(cs[1].symbol) /\ cs[1].symbol.size = 200 /\ cs[1].ok
        /\ IsCommon(cs[2].symbol) /\ cs[2].symbol.size = 100 /\ cs[2].ok
        /\ symbols[n].size = 200

(***************************************************************************)
(* Claims about the names of the symbol table and the library search,      *)
(* checked under SpecLink.                                                 *)
(***************************************************************************)

\* The uppercase-canonical form of an ASCII name.
to_uppercase(s) ==
    [i \in 1..Len(s) |-> IF s[i] \in 97..122 THEN s[i] - 32 ELSE s[i]]

\* C5: the symbol table is keyed by the uppercase-canonical form of the
\* name: names that differ only in letter case denote one entry, so no two
\* keys of the table have the same uppercase form (an EXTDEF "f" and a
\* PUBDEF "F" leave one entry, and it is not Undefined).
C5_UppercaseCanonicalKeys ==
    \A k1, k2 \in DOMAIN symbols :
        to_uppercase(k1) = to_uppercase(k2) => k1 = k2

\* C6: whenever Pass 1 returns success (the objects are read, the library
\* loop has run, the selected modules are ingested and the memory map is
\* built), no entry of the symbol table is Undefined.
C6_NoUndefinedAfterPass1 ==
    phase = "mapped" => undefined_symbols(symbols) = {}

\* What the code does keep: after a successful Pass 1 an entry is Undefined
\* only when an entry whose name differs from it in letter case alone is
\* defined.
UndefinedOnlyByLetterCase ==
    phase = "mapped" =>
        \A n \in undefined_symbols(symbols) :
            \E k \in DOMAIN symbols :
                /\ k # n
                /\ to_uppercase(k) = to_uppercase(n)
                /\ ~IsUndefined(symbols[k])

(***************************************************************************)
(* Claims about Segment::add_segdef, checked under SpecSeg.                *)
(***************************************************************************)

\* The least multiple of m that is >= x.
RoundUp(x, m) == ((x + m - 1) \div m) * m

\* C7: on a Public segment a successful add_segdef returns the old length
\* rounded up to the segdef's alignment and sets the length to that offset
\* plus the segdef's length; a Public segdef of at most 64k is accepted
\* exactly when that sum is at most 0x10000; and whatever the calls, the
\* segment length never exceeds 0x10000.
C7_AddSegdefPublic ==
    /\ seg.length <= 65536
    /\ (segCount > 0 /\ segBefore.combine = "Public") =>
         LET d == segCall.segdef
             aligned == RoundUp(segBefore.length, AlignBytes(d.align)) IN
         /\ segCall.ok =>
               /\ segCall.offset = aligned
               /\ seg.length = aligned + d.length
         /\ (d.combine = "Public" /\ d.length <= 65536) =>
               (segCall.ok <=> aligned + d.length <= 65536)

\* C7 witness: the unit test's case, a Para segdef of 500 bytes added to a
\* Public segment of 1000 bytes (offset 1008, length 1508), followed by a
\* Page segdef of 8 bytes, which is placed at 1536.
C7_Witness ==
    /\ segCount = 2
    /\ segCall.ok
    /\ segBefore.combine = "Public"
    /\ segBefore.length = 1508
    /\ segCall.segdef.align = "Page"
    /\ segCall.offset = 1536
    /\ seg.length = 1544

(***************************************************************************)
(* Claims about Pass 1, checked under SpecPass1.                           *)
(***************************************************************************)

\* Every per-object SegDef, as <<object number, SEGDEF number>>.
AllSegdefs ==
    UNION {{<<o, k>> : k \in 1..Len(objects[o].segdefs)} : o \in 1..Len(objects)}

SegdefAt(ok) == objects[ok[1]].segdefs[ok[2]]

\* C8: every SegDef of every object names an existing global segment and
\* lies inside it: 1 <= segidx <= number of segments and base + length <=
\* the segment's length, whatever was combined into the segment later.
C8_SegdefInsideSegment ==
    \A ok \in AllSegdefs :
        LET d == SegdefAt(ok) IN
        /\ 1 <= d.segidx /\ d.segidx <= Len(segments)
        /\ d.base + d.length <= segments[d.segidx].length

\* C8 witness: two objects have contributed to the same segment, the later
\* contribution after the earlier one at an aligned, non-zero base.
C8_Witness ==
    /\ Len(objects) = 2
    /\ \E a \in AllSegdefs, b \in AllSegdefs :
          /\ a[1] = 1 /\ b[1] = 2
          /\ SegdefAt(a).segidx = SegdefAt(b).segidx
          /\ SegdefAt(b).base > SegdefAt(a).base + SegdefAt(a).length

\* The segment at position k of segment_order.
Placed(k) == segments[segment_order[k]]

\* C9: after the memory map is built the first segment of segment_order is
\* at base 0, each next one is at the end of its predecessor rounded up to
\* its own alignment, so bases never decrease along the order and no two
\* segments overlap.
C9_AdjacentBases ==
    phase = "mapped" =>
        /\ segment_order # <<>> => Placed(1).base = 0
        /\ \A k \in 1..(Len(segment_order) - 1) :
              Placed(k + 1).base =
                 RoundUp(Placed(k).base + Placed(k).length,
                         AlignBytes(Placed(k + 1).align))
        /\ \A j \in 1..Len(segment_order), k \in 1..Len(segment_order) :
              j < k =>
                 /\ Placed(j).base <= Placed(k).base
                 /\ Placed(j).base + Placed(j).length <= Placed(k).base

\* C9 witness: three segments are placed and one of them had to be padded
\* up to its alignment.
C9_Witness ==
    /\ phase = "mapped"
    /\ Len(segment_order) = 3
    /\ \E k \in 1..2 : Placed(k + 1).base > Placed(k).base + Placed(k).length

\* The placement key of a segment: its own index when it has no class, the
\* index of the first segment of its class otherwise.
ClassKey(i) ==
    IF segments[i].name.classidx = 0 THEN i
    ELSE CHOOSE j \in 1..Len(segments) :
            /\ segments[j].name.classidx = segments[i].name.classidx
            /\ \A h \in 1..(j - 1) :
                  segments[h].name.classidx # segments[i].name.classidx

\* C10: segment_order is a permutation of 1..n in which the segments of a
\* class are contiguous and in index order, the classes come in the order
\* of their first segments, and a classless segment keeps its place among
\* the first-of-class segments: the order is sorted by (ClassKey, index).
C10_SegmentOrder ==
    phase = "mapped" =>
        /\ Len(segment_order) = Len(segments)
        /\ SeqRange(segment_order) = 1..Len(segments)
        /\ \A p \in 1..Len(segment_order), q \in 1..Len(segment_order) :
              p < q =>
                 \/ ClassKey(segment_order[p]) < ClassKey(segment_order[q])
                 \/ /\ ClassKey(segment_order[p]) = ClassKey(segment_order[q])
                    /\ segment_order[p] < segment_order[q]

\* C10 witness: the third segment shares the first one's class and is
\* placed before the second.
C10_Witness ==
    /\ phase = "mapped"
    /\ segment_order = <<1, 3, 2>>

(***************************************************************************)
(* Claims about the groups, checked under SpecGroup.                       *)
(***************************************************************************)

\* The bases of the members of a group.
MemberBases(group) ==
    {segments[group.members[k]].base : k \in 1..Len(group.members)}

\* C11: after the layout of Pass 1, the base of every group with at least
\* one member is the lowest base of its member segments.
C11_GroupBaseIsMinimum ==
    phase = "mapped" =>
        \A g \in 1..Len(groups) :
            groups[g].members # <<>> =>
                /\ groups[g].base \in MemberBases(groups[g])
                /\ \A b \in MemberBases(groups[g]) : groups[g].base <= b

\* Pass 1 has placed a group whose lowest member is not its first, has base
\* 0, and is of another class than, and not next in the order to, the other.
C11_Witness ==
    /\ phase = "mapped"
    /\ segment_order = <<1, 3, 2>>
    /\ \E g \in 1..Len(groups) :
          /\ groups[g].members = <<2, 1>>
          /\ groups[g].base = 0
          /\ segments[2].base = 595
          /\ segments[1].name.classidx # segments[2].name.classidx

(***************************************************************************)
(* Claims about the library modules, checked under SpecLink.               *)
(***************************************************************************)

\* The modules that the libraries give for the names not yet resolved.
ModulesFor(ls, tab, names) ==
    {SearchLibraries(ls, 1, n).module :
        n \in {x \in names : /\ ~AlreadyResolved(tab, x)
                             /\ SearchLibraries(ls, 1, x).found}}

\* The externs of a set of library modules.
ExternsOf(ls, M) ==
    UNION {SeqRange(pass1_obj_externs(extract_module(ls[m.lib], m.modpage))) :
             m \in M}

RECURSIVE ModuleClosure(_, _, _)
\* The least set of modules that holds M and, for every extern of its
\* modules that is not resolved, the module that defines it.
ModuleClosure(ls, tab, M) ==
    LET more == M \cup ModulesFor(ls, tab, ExternsOf(ls, M)) IN
    IF more = M THEN M ELSE ModuleClosure(ls, tab, more)

\* C12: the library modules are ingested in strictly increasing (lib, page)
\* order, each once, after the command-line objects; and the list of
\* modules is the closure of the undefined symbols under "the module that
\* defines this extern", whatever the order in which names were examined.
C12_ModulesInLibraryOrder ==
    phase \in {"ingest", "mapped"} =>
        /\ \A i, j \in 1..Len(mods) : i < j => LibraryModule_less(mods[i], mods[j])
        /\ ingested = 0 =>
              SeqRange(mods) =
                ModuleClosure(libs, symbols,
                              ModulesFor(libs, symbols, undefined_symbols(symbols)))
        /\ ingested <= Len(objects)
        /\ \A k \in 1..ingested :
              objects[Len(objects) - ingested + k].extdefs =
                pass1_obj_externs(extract_module(libs[mods[k].lib], mods[k].modpage))

\* Pass 1 has ingested a module of the second library and, before it, a
\* module of the first library.
C12_Witness ==
    /\ phase = "mapped"
    /\ mods = <<LibraryModule(1, 3), LibraryModule(2, 1)>>
    /\ ingested = 2
    /\ Len(objects) = 3
    /\ objects[2].extdefs = <<>>
    /\ objects[3].extdefs = <<NameLowerB>>

(***************************************************************************)
(* Claims about the dictionary lookup, checked under SpecDict.             *)
(***************************************************************************)

\* C13: a lookup makes at most dictBlocks x 37 probes; and when it returns,
\* a key that is in the dictionary was found, at its own slot, with its
\* page.
C13_DictionaryLookup ==
    walk.status # "idle" =>
        /\ walk.probes <= dictionary.nblocks * BLOCK_BUCKETS
        /\ walk.status # "walking" =>
              \A e \in EntriesOf(dictionary) :
                  e.key = walk.symbol =>
                      /\ walk.status = "found"
                      /\ walk.page = e.page
                      /\ dictionary.blocks[walk.block].buckets[walk.bucket] = e

\* A key was found in the second block of its chain, the first being full.
C13_Witness ==
    /\ walk.status = "found"
    /\ walk.probes > BLOCK_BUCKETS
    /\ walk.block # walk.hash.block
    /\ dictionary.blocks[walk.block].buckets[walk.bucket].key = walk.symbol
    /\ dictionary.blocks[walk.hash.block].full

(***************************************************************************)
(* Claims about FarPtr, checked under SpecEntry.                           *)
(***************************************************************************)

\* C14: to_linear is (segment << 4) + offset, and set_entry_point accepts
\* an entry point exactly when (seg << 4) + offset + 1 <= the image length.
C14_FarPtrLinear ==
    entryCall # <<>> =>
        /\ entryCall.result # "panic"
        /\ entryCall.linear = entryCall.seg * 16 + entryCall.offset
        /\ entryCall.result = "Ok" <=>
              entryCall.seg * 16 + entryCall.offset + 1 <= exe.len

(***************************************************************************)
(* Claims about Pass 2, checked under SpecPass2.                           *)
(***************************************************************************)

\* The fixup subrecords of the last FIXUPP record that returned Ok.
FixupsDone ==
    IF p2log = <<>> THEN {}
    ELSE {e \in SeqRange(p2log.fixups) : e.fixup.status = "Ok"}

\* The fixup of the entry e emits a relocation by its kind.
EmitsRelocation(e) ==
    e.fixup.is_segment_rel /\ e.fixup.loctype \in {"Segment16", "FarPointer"}

\* C15: a fixup subrecord processed without error adds exactly one MZ
\* relocation if it is a segment-relative Segment16 or FarPointer fixup and
\* none otherwise, wherever its patch site lies.
C15_OneRelocationPerSegmentFixup ==
    \A e \in FixupsDone :
        Len(e.fixup.relocs) - Len(e.relocsBefore) = IF EmitsRelocation(e) THEN 1 ELSE 0

\* The addresses at which two images differ.
ImageDiff(a, b) ==
    {x \in DOMAIN a.bytes \cup DOMAIN b.bytes : ImageByte(a, x) # ImageByte(b, x)}

\* C16: every image byte outside the regions that LEDATA and LIDATA placed
\* is zero, and a fixup changes no byte outside the most recent region.
C16_BytesOutsideRegionsStayZero ==
    p2log # <<>> =>
        /\ \A x \in DOMAIN image.bytes :
              \E r \in regions : r.base <= x /\ x < r.base + r.length
        /\ \A e \in SeqRange(p2log.fixups) :
              \A x \in ImageDiff(e.imageBefore, e.fixup.image) :
                 e.lastdata.base <= x /\ x < e.lastdata.base + e.lastdata.length

\* C17: the name table, the segments, the groups, segment_order and the
\* symbols are the same during and after pass 2 as when it started.
C17_Pass2KeepsTables ==
    p2log # <<>> => Tables(State) = p2log.start

\* The frame that the claim gives an external: its literal frame if it is
\* absolute, else the frame of its group if it has one, else the frame of
\* its segment, by the global indices.
ClaimedExtdefFrame(public) ==
    IF public.segment = 0 THEN public.frame
    ELSE IF public.group # 0 THEN ShiftRight(groups[public.group].base, 4)
    ELSE ShiftRight(segments[public.segment].base, 4)

\* The external whose frame the fixup data d takes, 0 if none.
FrameExtdef(d) ==
    IF d.frame_type = "EXTDEF" THEN d.frame_index
    ELSE IF d.frame_type = "FromTarget" /\ d.target_type = "EXTDEF" THEN d.target_index
    ELSE 0

\* C19: the frame of a fixup whose frame method is EXTDEF (or FromTarget
\* with an EXTDEF target) is the frame of the Public the external resolves
\* to, by the global group and segment indices of that Public.
C19_ExtdefFrameByGlobalIndex ==
    \A e \in FixupsDone :
        FrameExtdef(e.fixup.data) # 0 =>
            e.fixup.data.fbval =
                ClaimedExtdefFrame(symbols[objects[cur].extdefs[FrameExtdef(e.fixup.data)]])

\* The address of the segment word that the fixup of e patches.
SegmentWord(e) ==
    IF e.fixup.loctype = "FarPointer" THEN e.fixup.imageptr + 2 ELSE e.fixup.imageptr

\* C20: the relocation (seg, offset) emitted for a Segment16 or FarPointer
\* fixup has seg = lastData.frame, which is base >> 4 of the most recent
\* data region, and (seg << 4) + offset is the address of the patched
\* segment word, the offset being in 0..0xFFFF without truncation.
C20_RelocationAddressesSegmentWord ==
    \A e \in FixupsDone :
        Len(e.fixup.relocs) > Len(e.relocsBefore) =>
            /\ Last(e.fixup.relocs).seg = e.lastdata.frame
            /\ e.lastdata.frame = ShiftRight(e.lastdata.base, 4)
            /\ SegmentWord(e) - Last(e.fixup.relocs).seg * 16 \in 0..65535
            /\ Last(e.fixup.relocs).seg * 16 + Last(e.fixup.relocs).offset = SegmentWord(e)

(***************************************************************************)
(* Claims about the Record reader, checked under SpecRecord.               *)
(***************************************************************************)

\* The bytes of r that have not been read.
Remaining(r) == Len(r.data) - r.next

\* The byte of r at the cursor plus k, 0 beyond the end.
Peek(r, k) == IF r.next + k < Len(r.data) THEN r.data[r.next + k + 1] ELSE 0

\* The number of bytes that the accessor op needs of the record r.
Needed(op, r) ==
    CASE op = "byte" -> 1
      [] op = "word" -> 2
      [] op = "dword" -> 4
      [] op = "index" -> IF Peek(r, 0) >= 128 THEN 2 ELSE 1
      [] op = "counted_string" -> 1 + Peek(r, 0)
      [] op = "comdef_length" ->
            CASE Peek(r, 0) = 129 -> 3
              [] Peek(r, 0) = 132 -> 4
              [] Peek(r, 0) = 136 -> 5
              [] OTHER -> 1

\* C18: the cursor of a validly framed record stays within 0..payload
\* length; a read that needs more bytes than remain returns an error and no
\* data; end() is true exactly when the cursor is at the payload length;
\* total_length() is the length field of the record plus 3.
C18_RecordReaderStaysInBounds ==
    record # <<>> =>
        /\ record.next \in 0..Len(record.data)
        /\ Len(record.data) = (raw[2] + 256 * raw[3]) - 1
        /\ Record_end(record) <=> (record.next = Len(record.data))
        /\ Record_total_length(record) = (raw[2] + 256 * raw[3]) + 3
        /\ recCall # <<>> =>
              /\ record.data = recCall.before.data
              /\ record.next >= recCall.before.next
              /\ Needed(recCall.op, recCall.before) > Remaining(recCall.before) =>
                    ~recCall.ok /\ recCall.value = 0
              /\ recCall.ok =>
                    record.next = recCall.before.next + Needed(recCall.op, recCall.before)

\* C18 witness: a two-byte index whose second byte is missing has failed,
\* with the cursor at the end of a payload that is not empty.
C18_Witness ==
    /\ recCall # <<>>
    /\ recCall.op = "index"
    /\ ~recCall.ok
    /\ Peek(recCall.before, 0) >= 128
    /\ Remaining(recCall.before) = 1
    /\ Record_end(record)
    /\ record.next > 0


(***************************************************************************)
(* More claims about the fixups of Pass 2, checked under SpecPass2.        *)
(***************************************************************************)

\* foval of the fixup of e: its target less the base of its frame.
Foval(e) == e.fixup.data.target - e.fixup.data.fbval * 16

\* C21: a segment-relative LowByte fixup adds foval & 0xFF, where foval =
\* target - (frame << 4), to the byte at the patch site with 8-bit
\* wraparound, and changes no other byte.
C21_LowByteAddsFoval ==
    \A e \in FixupsDone :
        (/\ e.fixup.is_segment_rel
         /\ e.fixup.loctype = "LowOrderByte"
         /\ e.fixup.imageptr < e.imageBefore.len) =>
            /\ ImageByte(e.fixup.image, e.fixup.imageptr) =
                  (ImageByte(e.imageBefore, e.fixup.imageptr) + (Foval(e) % 256)) % 256
            /\ ImageDiff(e.imageBefore, e.fixup.image) \subseteq {e.fixup.imageptr}

(***************************************************************************)
(* More claims about Pass 1, checked under SpecPass1 and SpecGroup.        *)
(***************************************************************************)

\* The SEGDEF record rec of the object obj decodes: its alignment and its
\* combine type are accepted, its names are of the object, its B bit
\* agrees with its length.
SegdefDecodes(obj, rec) ==
    /\ Align_from_acbp(rec.acbp).ok
    /\ Combine_from_acbp(rec.acbp).ok
    /\ SegdefName(obj.lnames, rec).ok
    /\ SegdefLength(rec.acbp, rec.length).ok

\* What the claim says of a SEGDEF whose name triple matches no segment.
SegdefAppends(rec) ==
    /\ Len(segments') = Len(segments) + 1
    /\ Len(Last(objects').segdefs) = Len(Last(objects).segdefs) + 1
    /\ Last(Last(objects').segdefs).base = 0
    /\ Last(Last(objects').segdefs).segidx = Len(segments')
    /\ Last(segments').length = SegdefLength(rec.acbp, rec.length).length

\* C22: a SEGDEF whose name triple matches no global segment appends one
\* global segment of the SEGDEF's length and records one per-object SegDef
\* with base 0, for every combine type the ACBP decoder accepts; a SEGDEF
\* whose triple matches a segment adds no global segment.
C22_SegdefAppendsSegment ==
    [][\A rec \in SegdefRecords :
          (Segdef(rec) /\ SegdefDecodes(Last(objects), rec)) =>
             IF get_segment_named(segments,
                                  SegdefName(Last(objects).lnames, rec).segname) = 0
             THEN SegdefAppends(rec)
             ELSE Len(segments') = Len(segments)]_vars

\* C23: after Pass 1 every member segment of a group is tagged with that
\* group: state.segments[S].group = g for every group g and every S in
\* state.groups[g].members, also when GRPDEFs list one segment under
\* different group names.
C23_MembersTaggedWithGroup ==
    phase = "mapped" =>
        \A g \in 1..Len(groups) :
            \A k \in 1..Len(groups[g].members) :
                segments[groups[g].members[k]].group = g

(***************************************************************************)
(* The termination of the library loop, checked under SpecLinkFair.        *)
(***************************************************************************)

\* The modules of mods that the loop has scanned for their externs: the
\* first undstart.
Scanned == SubSeq(mods, 1, undstart)

\* No (lib, page) module is in the pending modules twice, and what has
\* been scanned is pending; when the loop is left every pending module has
\* been scanned.
PendingOnce ==
    /\ \A i, j \in 1..Len(mods) : mods[i] = mods[j] => i = j
    /\ undstart <= Len(mods)
    /\ phase = "ingest" => undstart = Len(mods)

\* A step of the loop that stays in it: the pending modules only grow at
\* the end, the scanned ones stay scanned, and the round that has just
\* ended (und = {}) found every name and added a module, which it scanned.
RoundStep ==
    (phase = "search" /\ phase' = "search") =>
        /\ SubSeq(mods', 1, Len(mods)) = mods
        /\ SubSeq(mods', 1, undstart) = Scanned
        /\ und = {} => /\ undefined = 0
                       /\ undstart < Len(mods)
                       /\ undstart' = Len(mods')
        /\ und # {} => undstart' = undstart

\* C24: the library resolution loop terminates, also when library modules
\* refer to each other in a cycle: a (lib, page) module enters the pending
\* modules at most once, a pending module is scanned for its EXTDEF and
\* COMDEF names once, and the loop is left when a round adds no module or
\* a name is in no library.
C24_LibraryLoopTerminates ==
    /\ []PendingOnce
    /\ [][RoundStep]_vars
    /\ (phase = "search") ~> (phase \in {"ingest", "failed"})

\* C24 witness: the loop has ended over the library whose two modules need
\* each other, entered for "F" alone, with both modules pending.
C24_Witness ==
    /\ phase = "ingest"
    /\ libs = <<LibCycle>>
    /\ DOMAIN symbols = {NameUpperF}
    /\ undstart = 2
    /\ {mods[i] : i \in 1..Len(mods)} = {LibraryModule(1, 1), LibraryModule(1, 2)}

(***************************************************************************)
(* More claims about add_segdef, checked under SpecSeg.                    *)
(***************************************************************************)

\* The reasons add_segdef has to return an error for the segdef d added to
\* the segment s: d is Private, s is Private, the combine types differ, d
\* is longer than 64k, or the Public or Stack concatenation is.
MustReject(s, d) ==
    \/ d.combine = "Private"
    \/ s.combine = "Private"
    \/ d.combine # s.combine
    \/ d.length > 65536
    \/ s.combine = "Public" /\ RoundUp(s.length, AlignBytes(d.align)) + d.length > 65536
    \/ s.combine = "Stack" /\ s.length + d.length > 65536

\* C25: add_segdef returns an error exactly when the segdef is Private, the
\* segment is Private, the combine types differ, the segdef is longer than
\* 0x10000 or the Public or Stack concatenation would exceed 0x10000; and
\* then the segment's length, align, combine and base are what they were
\* before the call.
C25_RejectedSegdefLeavesSegment ==
    segCount > 0 =>
        /\ ~segCall.ok <=> MustReject(segBefore, segCall.segdef)
        /\ ~segCall.ok =>
              /\ seg.length = segBefore.length
              /\ seg.align = segBefore.align
              /\ seg.combine = segBefore.combine
              /\ seg.base = segBefore.base
              /\ seg = segBefore

\* C25 witness: a Public segment of 65528 bytes has refused a Para segdef
\* of 8 bytes, which would end at 65544, after it had taken another segdef.
C25_Witness ==
    /\ segCount = 2
    /\ ~segCall.ok
    /\ segBefore.combine = "Public"
    /\ segCall.segdef.combine = "Public"
    /\ segCall.segdef.align = "Para"
    /\ segCall.segdef.length = 8
    /\ seg.length = 65528
    /\ seg.align = "Para"

(***************************************************************************)
(* Claims about PUBDEF, checked under SpecPubdef.                          *)
(***************************************************************************)

\* The record offset lies in the SegDef d: below its length, or 0 in an
\* empty one.
OffsetInSegdef(d, offset) == offset < d.length \/ (offset = 0 /\ d.length = 0)

\* What the claim says of the PUBDEF record rec, whose first public is p,
\* read for the object obj when p.name is not in the symbol table: in the
\* SegDef d the offset is accepted if it lies in d and d.base + offset fits
\* in 16 bits, and then that sum is stored; in no segment the offset and
\* the frame word are stored as they are.
PubdefStores(obj, rec, p) ==
    IF rec.segment = 0
    THEN /\ phase' = "pass1"
         /\ symbols'[p.name] = Symbol_public(0, 0, rec.frame, p.offset)
    ELSE IF /\ OffsetInSegdef(obj.segdefs[rec.segment], p.offset)
            /\ obj.segdefs[rec.segment].base + p.offset <= 65535
    THEN /\ Len(rec.publics) = 1 => phase' = "pass1"
         /\ symbols'[p.name] =
               Symbol_public(0, obj.segdefs[rec.segment].segidx, 0,
                             obj.segdefs[rec.segment].base + p.offset)
         /\ symbols'[p.name].offset \in 0..65535
    ELSE /\ phase' = "failed"
         /\ symbols' = symbols

\* C26: a PUBDEF in a segment accepts a record offset iff it is below the
\* SegDef's length, or 0 in an empty SegDef; the offset stored is
\* segdef.base + the record offset, at most 0xFFFF, and the PUBDEF fails if
\* that sum exceeds 0xFFFF instead of storing it truncated; in no segment
\* the record offset is stored unchanged and the frame is the frame word.
C26_PubdefOffsetInSegdef ==
    [][\A rec \in SegmentPubdefRecords :
          (/\ Pubdef(rec)
           /\ rec.segment <= Len(Last(objects).segdefs)
           /\ rec.publics[1].name \notin DOMAIN symbols) =>
              PubdefStores(Last(objects), rec, rec.publics[1])]_vars

\* C26 witness: a public at offset 2 of a SegDef that lies at base 8 of its
\* segment has been stored with the offset 10.
C26_Witness ==
    /\ phase = "pass1"
    /\ Len(objects) = 2
    /\ Len(objects[2].segdefs) = 1
    /\ objects[2].segdefs[1].base = 8
    /\ DOMAIN symbols = {NameUpperF}
    /\ symbols[NameUpperF] = Symbol_public(0, 1, 0, 10)

(***************************************************************************)
(* Claims about the fixup threads, checked under SpecPass2.                *)
(***************************************************************************)

\* What a thread subrecord latches: its method and its index go into the
\* slot it names, of the frame threads or of the target threads.
Latch(thr, sub) ==
    IF BitAnd(sub.b0, 64) # 0
    THEN [thr EXCEPT !.frame_threads[BitAnd(sub.b0, 3)] =
            [frame_type |-> FrameType_from_byte(BitAnd(ShiftRight(sub.b0, 2), 7)).value,
             frame_index |-> IF BitAnd(ShiftRight(sub.b0, 2), 7) <= 2
                             THEN sub.index ELSE 0]]
    ELSE [thr EXCEPT !.target_threads[BitAnd(sub.b0, 3)] =
            [target_type |-> TargetType_from_byte(BitAnd(ShiftRight(sub.b0, 2), 3)).value,
             target_index |-> sub.index]]

RECURSIVE Latched(_, _)
\* The threads after the thread subrecords among subs, in order, from thr.
Latched(thr, subs) ==
    IF subs = <<>> THEN thr
    ELSE Latched(IF BitAnd(Head(subs).b0, 128) = 0 THEN Latch(thr, Head(subs)) ELSE thr,
                 Tail(subs))

\* The fixup of the log entry e takes its frame and its target from the
\* slots thr when it selects a thread, and fails on a slot never latched.
UsesLatched(e, thr) ==
    /\ BitAnd(e.sub.fixdat, 128) # 0 =>
          LET t == thr.frame_threads[BitAnd(ShiftRight(e.sub.fixdat, 4), 3)] IN
          IF t.frame_type = "None" THEN e.fixup.status = "Err"
          ELSE /\ e.fixup.data.frame_type = t.frame_type
               /\ e.fixup.data.frame_index = t.frame_index
    /\ BitAnd(e.sub.fixdat, 8) # 0 =>
          LET t == thr.target_threads[BitAnd(e.sub.fixdat, 3)] IN
          IF t.target_type = "None" THEN e.fixup.status = "Err"
          ELSE /\ e.fixup.data.target_type = t.target_type
               /\ e.fixup.data.target_index = t.target_index

\* A FIXUPP step: every fixup of the record uses what the thread subrecords
\* of this object have latched up to it, in this record and in those
\* before; a record read to its end leaves its latches to the next; the
\* threads of the other objects stay as they are.
FixuppLatches(rec) ==
    /\ \A o \in 1..Len(objects) : o # cur => threads'[o] = threads[o]
    /\ \A k \in 1..Len(p2log'.fixups) :
          UsesLatched(p2log'.fixups[k],
                      Latched(threads[cur],
                              SubSeq(rec, 1, Len(rec) - p2log'.fixups[k].rest)))
    /\ phase' = "pass2" => threads'[cur] = Latched(threads[cur], rec)

\* The step is the reading of a FIXUPP record.
FixuppStep == p2count' = p2count + 1 /\ p2log'.type = "FIXUPP"

\* C27: fixup threads are latched per module: a fixup that selects frame
\* thread or target thread N uses the (method, index) most recently latched
\* into slot N by a thread subrecord of the same object, across the FIXUPP
\* records of that object; a slot that no thread subrecord of the object
\* has latched is an error; the threads latched in one object are not
\* visible to another.
C27_ThreadsLatchedPerModule ==
    /\ [](p2log # <<>> =>
             \A o \in (cur + 1)..Len(objects) : threads[o] = ThreadState_new)
    /\ [][FixuppStep => FixuppLatches(p2log'.record)]_vars
    /\ [][threads' # threads => FixuppStep]_vars

\* C27 witness: the second FIXUPP record of an object has latched SEGDEF 1
\* and SEGDEF 2 into the slots 0 that the first had set to EXTDEF 1 and
\* SEGDEF 1, and its fixup has used the new ones.
C27_Witness ==
    /\ p2log # <<>>
    /\ p2count = 2
    /\ cur = 1
    /\ phase = "pass2"
    /\ Len(p2log.fixups) = 1
    /\ p2log.fixups[1].threads.frame_threads[0] = [frame_type |-> "SEGDEF", frame_index |-> 1]
    /\ p2log.fixups[1].threads.target_threads[0] = [target_type |-> "SEGDEF", target_index |-> 2]
    /\ p2log.fixups[1].fixup.status = "Ok"
    /\ p2log.fixups[1].fixup.data.frame_type = "SEGDEF"
    /\ p2log.fixups[1].fixup.data.target_index = 2
    /\ Len(relocs) = 1

(***************************************************************************)
(* Claims about the entry point, checked under SpecPass2.                  *)
(***************************************************************************)

\* The step is the reading of a MODEND record.
ModendStep == p2count' = p2count + 1 /\ p2log'.type = "MODEND"

\* The MODEND record names a start address: MainModule and HasStart.
HasStartAddress(rec) ==
    /\ rec.present
    /\ BitAnd(rec.modtype, 128) # 0
    /\ BitAnd(rec.modtype, 64) # 0

\* What a MODEND step over rec does to the entry, data the frame and the
\* target its start address resolves to.
ModendSetsEntryOnce(rec, data) ==
    /\ ~HasStartAddress(rec) => entry' = entry /\ phase' = "pass2"
    /\ HasStartAddress(rec) /\ entry # <<>> => entry' = entry /\ phase' = "failed"
    /\ HasStartAddress(rec) /\ entry = <<>> =>
          IF data.ok /\ data.target - data.fbval * 16 \in 0..65535
          THEN /\ phase' = "pass2"
               /\ entry' = [seg |-> data.fbval, offset |-> data.target - data.fbval * 16]
               /\ entry'.seg * 16 + entry'.offset = data.target
          ELSE /\ phase' = "failed"
               /\ entry' = <<>>

\* C28: the entry point is set at most once over the whole link: the first
\* MODEND with MainModule and HasStart stores (frame, target - (frame << 4)),
\* so that (seg << 4) + offset is the target address; a later one fails and
\* leaves the entry; an offset outside 0..0xFFFF is an error and stores no
\* entry; a MODEND without both bits never changes the entry; nothing else
\* changes it.
C28_EntrySetAtMostOnce ==
    /\ [][ModendStep =>
            ModendSetsEntryOnce(p2log'.record,
                                pass2_fixup_data(p2log'.record, State, objects[cur],
                                                 threads[cur], lastdata))]_vars
    /\ [][entry' # entry => ModendStep /\ entry = <<>>]_vars

\* C28 witness: the MODEND of the first object has stored the entry 0:4 and
\* the MODEND of the second, with a start address of its own, has failed.
C28_Witness ==
    /\ p2log # <<>>
    /\ p2log.type = "MODEND"
    /\ HasStartAddress(p2log.record)
    /\ cur = 2
    /\ p2count = 2
    /\ phase = "failed"
    /\ entry # <<>>
    /\ entry.offset = 4

(***************************************************************************)
(* Claims about the MZ writer, checked under SpecWrite.                    *)
(***************************************************************************)

\* The little-endian word the header of the written file holds at off.
FileWord(f, off) == f.header[off + 1] + 256 * f.header[off + 2]

\* The header pages of a header whose relocation table starts at 0x3E.
HeaderPagesOf(e) == (62 + 4 * Len(e.relocs) + 511) \div 512

\* ceil(imageLen / 512).
ImagePagesOf(e) == (e.len + 511) \div 512

\* The relocation table of the file starts at `start`: pairs of
\* little-endian words, the offset and then the segment.
RelocTableAt(e, f, start) ==
    /\ Len(f.header) >= start + 4 * Len(e.relocs)
    /\ \A i \in 1..Len(e.relocs) :
          /\ FileWord(f, start + 4 * (i - 1)) = e.relocs[i].offset
          /\ FileWord(f, start + 4 * (i - 1) + 2) = e.relocs[i].seg

\* C29: the layout of the written MZ file: the header is padded with zeros
\* to a multiple of 512 bytes, so that the image begins at the file offset
\* 16 times the header paragraphs stored at 0x08; the relocation table
\* begins at 0x3E, the value stored at 0x18, as (offset, segment) pairs;
\* 0x02 holds the image length mod 512 and 0x04 the pages of the image plus
\* the pages of the header.
C29_MzLayout ==
    (file # <<>> /\ file.result = "Ok") =>
       /\ Len(file.header) % 512 = 0
       /\ Len(file.header) = 16 * FileWord(file, 8)
       /\ FileWord(file, 24) = 62
       /\ RelocTableAt(exe, file, 62)
       /\ FileWord(file, 2) = exe.len % 512
       /\ FileWord(file, 4) = ImagePagesOf(exe) + HeaderPagesOf(exe)

(***************************************************************************)
(* Claims about the data records, checked under SpecPass2.                 *)
(***************************************************************************)

\* The step is the reading of an LEDATA or an LIDATA record.
DataStep == p2count' = p2count + 1 /\ p2log'.type \in {"LEDATA", "LIDATA"}

\* The record names no SEGDEF of the object: the step ends pass 2 with an
\* error and the image is as it was.
InvalidSegidxRejected(obj, rec) ==
    ~OmfVec_is_valid_index(obj.segdefs, rec.segidx) =>
       /\ phase' = "failed"
       /\ image' = image

\* The record was accepted: the range it wrote, which is the new lastdata,
\* lies inside the global segment of its SEGDEF and inside the image.
AcceptedInsideSegment(obj, rec) ==
    phase' = "pass2" =>
       /\ OmfVec_is_valid_index(obj.segdefs, rec.segidx)
       /\ lastdata'.base >= segments[obj.segdefs[rec.segidx].segidx].base
       /\ lastdata'.base + lastdata'.length
             <= segments[obj.segdefs[rec.segidx].segidx].base
                + segments[obj.segdefs[rec.segidx].segidx].length
       /\ lastdata'.base + lastdata'.length <= image.len

\* C30: an LEDATA or LIDATA record whose segment index is 0 or greater than
\* the number of SEGDEFs of its object is rejected with an error, not a
\* panic, and writes nothing to the image; the range an accepted record
\* writes lies inside the global segment that owns it and inside the image.
C30_DataRecordSegidxChecked ==
    [][DataStep =>
          /\ InvalidSegidxRejected(objects[cur], p2log'.record)
          /\ AcceptedInsideSegment(objects[cur], p2log'.record)]_vars

=============================================================================
